---- MODULE Spec2Model ----
(***************************************************************************)
(* Model of the LSP client of patchwise/patch_review/ai_review/            *)
(* ai_code_review.py (class AiCodeReview).                                 *)
(*                                                                         *)
(* The specifications of the module share its variables; each starts the   *)
(* parts it does not use idle:                                             *)
(*   Spec        - one context-building pass (_collect_definitions): the   *)
(*                 handshake, the per-file identifier loops, the dispatch  *)
(*                 loop of _read_lsp_response over whole frames, and the   *)
(*                 analysis server as the environment (FairSpec: with      *)
(*                 fairness).                                              *)
(*   SpecDrain   - a pass without identifier lookups beside the thread     *)
(*                 that drains the server's error stream (FairSpecDrain).  *)
(*   SpecCodec   - _make_message_bytes and the byte-level frame read of    *)
(*                 _read_lsp_response (header loop, Content-Length, body,  *)
(*                 json.loads), on a stream that may end early.            *)
(*   SpecStream  - successive frame reads on a stream of two frames.       *)
(*   SpecWait    - wait_for_clangd_indexing (the IndexWaiter).             *)
(*   SpecDiff    - parse_diff.                                             *)
(*   SpecTree    - _find_symbol_and_parent and _get_document_symbols.      *)
(*   SpecContext - _fill_context_gaps and _format_file_context.            *)
(***************************************************************************)
EXTENDS Integers, Sequences, FiniteSets, TLC

VARIABLES
    \* ---- the pass (Spec) ----
    pc,               \* position of the main flow
    proc,             \* the clangd process: "none", "running", "terminated"
    started,          \* number of subprocess.Popen calls made
    stderr_thread,    \* the daemon thread draining proc.stderr: "none", "running"
                      \* (started), "reading", "finished" (end-of-stream), "failed"
    files,            \* file_adds, in iteration order: [exists, idents]
    fi,               \* index of the file being processed
    ii,               \* index into idents_with_pos
    symbols,          \* documentSymbol result of the diffed file ("empty" / "loc")
    awaiting,         \* expected_id of the blocking read in progress, NoId if none
    resp,             \* the frame the last blocking read returned
    loc,              \* resp of the definition request of the current identifier
    out,              \* frames written by the server, not yet read (proc.stdout)
    srvPending,       \* requests the server has received and not answered yet
    noiseLeft,        \* unsolicited frames the server may still send
    hist,             \* client events: sends, create frames read, read returns
    printed_defs,     \* set of identifier names already recorded
    printed_locations,\* set of recorded definition locations
    collected_defs,   \* sequence of recorded entries
    last_logged,      \* kind of the frame the dispatch loop logged last
    \* ---- the frame codec (SpecCodec) ----
    c_pc,             \* "idle", "header", "body", "returned", "raised"
    c_msg,            \* the message that was encoded
    complete,         \* whether the whole encoded frame is on the stream
    wire,             \* bytes on proc.stdout not yet read
    closed,           \* the stream ends after the bytes of wire
    headers,          \* the header bytes read so far
    content_length,   \* the parsed Content-Length
    decoded,          \* the message returned
    spins,            \* empty chunks read at end-of-stream in the header loop
    c_frames,         \* the frames the server wrote to the stream: [msg, style]
    c_reads,          \* the messages the frame reads have returned, in order
    \* ---- the IndexWaiter (SpecWait) ----
    w_pc,             \* "idle", "outer", "poll", "returned", "hung"
    w_args,           \* [max_total_wait, max_stale_time, interval, max_interval]
    last_percentage,
    last_value,
    waited,
    current_interval,
    message_read,
    elapsed,          \* time.time() - start_time
    w_obs,            \* how long the value had been unchanged at the last progress frame
    w_exit,           \* why the waiter returned
    w_left,           \* frames the server may still send to the waiter
    w_since,          \* elapsed when the progress value now held was first seen
    w_msg,            \* params["value"] of the last frame the waiter read
    w_slept,          \* the interval of the waiter's last sleep
    \* ---- the diff parser (SpecDiff) ----
    d_pc,             \* "idle", "loop", "done"
    diff,             \* the diff, as the items it was built from
    diff_lines,       \* the diff, as the lines parse_diff is given
    d_i,              \* index of the next line of the for loop
    file_adds,
    current_file,
    new_line,
    \* ---- the symbol tree search (SpecTree) ----
    t_pc,             \* "idle", "call", "done", "chosen"
    t_symbols,        \* the symbol tree: a list of nodes [name, start, end, children]
    t_identifier,
    t_line,
    t_found,          \* the (node, parent) returned, or None
    def_symbol,       \* the symbol _get_document_symbols returned, or None
    \* ---- the context of one file (SpecContext) ----
    g_pc,             \* "idle", "fill", "filled", "done"
    essential_lines,
    n_lines,          \* len(lines) of the file
    print_lines,      \* _fill_context_gaps(essential_lines)
    refilled,         \* _fill_context_gaps(print_lines)
    file_context,     \* the list _format_file_context returns
    \* ---- the error stream of the server (SpecDrain) ----
    err_pipe,         \* lines in the pipe of proc.stderr, not yet read
    err_blocked,      \* the server is blocked writing a line to the full pipe
    err_left          \* lines the server may still write to its error stream

passVars == <<pc, proc, started, stderr_thread, files, fi, ii, symbols, awaiting,
              resp, loc, out, srvPending, noiseLeft, hist, printed_defs,
              printed_locations, collected_defs, last_logged>>
codecVars == <<c_pc, c_msg, complete, wire, closed, headers, content_length,
               decoded, spins, c_frames, c_reads>>
waitVars == <<w_pc, w_args, last_percentage, last_value, waited,
              current_interval, message_read, elapsed, w_obs, w_exit, w_left,
              w_since, w_msg, w_slept>>
diffVars == <<d_pc, diff, diff_lines, d_i, file_adds, current_file, new_line>>
treeVars == <<t_pc, t_symbols, t_identifier, t_line, t_found, def_symbol>>
ctxVars == <<g_pc, essential_lines, n_lines, print_lines, refilled, file_context>>
pureVars == <<diffVars, treeVars, ctxVars>>
drainVars == <<err_pipe, err_blocked, err_left>>
vars == <<passVars, codecVars, waitVars, pureVars, drainVars>>

(***************************************************************************)
(* Bounds of the model.                                                    *)
(***************************************************************************)
MaxFiles == 2       \* files in file_adds
MaxLoad == 4        \* files, identifier occurrences and unsolicited frames of a pass
MaxIdents == 2      \* identifier occurrences in the added lines of a file
MaxNoise == 2       \* unsolicited frames the server sends in a pass
MaxQueue == 2       \* frames in flight on proc.stdout
MaxTotalWait == 5   \* the max_total_wait argument of the waiter
MaxInterval == 2    \* the max_interval argument of the waiter
MaxWaitFrames == 7  \* frames the server sends while the waiter runs
MaxClock == 9       \* the clock stops the model here
MaxSpins == 2       \* empty reads at end-of-stream the model follows
MaxDiffItems == 6   \* file headers, hunk headers and hunk lines of a diff
MaxTreeDepth == 3   \* levels of a symbol tree

Names == {"a", "b"}

(***************************************************************************)
(* Program constants.                                                      *)
(***************************************************************************)
INIT_MSG_ID == 1
DEFINITION_MSG_ID == 2
\* The documentSymbol request reusing the definition request's id.
SYMBOL_MSG_ID_Reused == DEFINITION_MSG_ID
SYMBOL_MSG_ID == 3
DOC_SYMBOL_MSG_ID == 100
MAX_GAP == 5
WORKDONE_RESPONSE_ID == 0

NoId == -1          \* msg.get("id") is None / expected_id is None

(***************************************************************************)
(* Frames on proc.stdout, as _read_lsp_response sees them after            *)
(* json.loads: kind is what the server meant the frame to be, id is        *)
(* msg.get("id"), res is msg.get("result") ("empty": missing, null or      *)
(* an empty list).  A frame of kind "bad" has a body json.loads rejects.   *)
(***************************************************************************)
Results == {"empty", "loc", "loc2"}

Frame(k, i, r) == [kind |-> k, id |-> i, res |-> r]

NoFrame == Frame("none", NoId, "empty")

\* The server gives the requests it initiates ids of its own id space,
\* independent of the client's.
NoiseFrames ==
    {Frame("create", i, "empty") : i \in {WORKDONE_RESPONSE_ID, DEFINITION_MSG_ID}}
    \cup {Frame(k, NoId, "empty") : k \in {"diag", "status", "progress", "other", "bad"}}

(***************************************************************************)
(* Client events recorded in hist.                                         *)
(***************************************************************************)
Event(e, w, i) == [ev |-> e, what |-> w, id |-> i]

\* _create_lsp_message + _send_lsp_message: one message written to stdin.
SendEvent(method, id) == Event("send", method, id)

RequestMethods == {"initialize", "textDocument/definition", "textDocument/documentSymbol"}

Request(method, id) == [method |-> method, id |-> id]

(***************************************************************************)
(* Inputs of a pass: the files of file_adds with the identifier            *)
(* occurrences of their added lines.                                       *)
(***************************************************************************)
RECURSIVE SeqsUpTo(_, _)
SeqsUpTo(S, n) ==
    IF n = 0 THEN {<<>>}
    ELSE LET shorter == SeqsUpTo(S, n - 1) IN
         shorter \cup {Append(s, x) : s \in {t \in shorter : Len(t) = n - 1}, x \in S}

\* The identifier names of a file's added lines, in order of occurrence.  Names
\* are interchangeable, so the first occurrence is taken to be "a".
IdentSeqs == {s \in SeqsUpTo(Names, MaxIdents) : s = <<>> \/ s[1] = "a"}

FileInputs ==
    {[exists |-> FALSE, idents |-> <<>>]}
    \cup {[exists |-> TRUE, idents |-> s] : s \in IdentSeqs}

\* len(idents_with_pos), summed over the files of a pass.
RECURSIVE Occurrences(_)
Occurrences(fs) ==
    IF fs = <<>> THEN 0 ELSE Len(Head(fs).idents) + Occurrences(Tail(fs))

\* Passes of up to MaxLoad files and identifier occurrences together.
PassInputs ==
    {fs \in SeqsUpTo(FileInputs, MaxFiles) \ {<<>>} :
        Occurrences(fs) <= MaxIdents /\ Len(fs) + Occurrences(fs) <= MaxLoad}

\* The unsolicited frames the server may send during a pass: the smaller
\* the pass, the more of them.
NoiseBudget(fs) ==
    IF MaxLoad - Len(fs) - Occurrences(fs) < MaxNoise
    THEN MaxLoad - Len(fs) - Occurrences(fs) ELSE MaxNoise

IdleCodec ==
    /\ c_pc = "idle" /\ c_msg = <<>> /\ complete = FALSE /\ wire = <<>>
    /\ closed = FALSE /\ headers = <<>> /\ content_length = 0
    /\ decoded = <<>> /\ spins = 0
    /\ c_frames = <<>> /\ c_reads = <<>>

IdleWait ==
    /\ w_pc = "idle" /\ w_args = <<>> /\ last_percentage = NoId
    /\ last_value = <<>> /\ waited = 0 /\ current_interval = 0
    /\ message_read = FALSE /\ elapsed = 0 /\ w_obs = 0
    /\ w_exit = "none" /\ w_left = 0 /\ w_since = 0
    /\ w_msg = [percentage |-> NoId, message |-> "none"]
    /\ w_slept = NoId

\* Optional[...]: None, or a value.
None == [some |-> FALSE, v |-> 0]
Some(x) == [some |-> TRUE, v |-> x]

IdleDiff ==
    /\ d_pc = "idle" /\ diff = <<>> /\ diff_lines = <<>> /\ d_i = 0
    /\ file_adds = <<>> /\ current_file = None /\ new_line = None

IdleTree ==
    /\ t_pc = "idle" /\ t_symbols = <<>> /\ t_identifier = "" /\ t_line = 0
    /\ t_found = None /\ def_symbol = None

IdleCtx ==
    /\ g_pc = "idle" /\ essential_lines = {} /\ n_lines = 0 /\ print_lines = {}
    /\ refilled = {} /\ file_context = <<>>

IdlePure == IdleDiff /\ IdleTree /\ IdleCtx

IdleDrain == err_pipe = 0 /\ err_blocked = FALSE /\ err_left = 0

IdlePass ==
    /\ pc = "idle" /\ proc = "none" /\ started = 0 /\ stderr_thread = "none"
    /\ files = <<>> /\ fi = 0 /\ ii = 0 /\ symbols = "empty" /\ awaiting = NoId
    /\ resp = NoFrame /\ loc = NoFrame /\ out = <<>> /\ srvPending = <<>>
    /\ noiseLeft = 0 /\ hist = <<>> /\ printed_defs = {}
    /\ printed_locations = {} /\ collected_defs = <<>>
    /\ last_logged = "none"

\* process_diff_and_print_definitions has a non-empty file_adds in hand and
\* is about to call _collect_definitions.
Init ==
    /\ pc = "start" /\ proc = "none" /\ started = 0 /\ stderr_thread = "none"
    /\ files \in PassInputs
    /\ fi = 0 /\ ii = 0 /\ symbols = "empty" /\ awaiting = NoId
    /\ resp = NoFrame /\ loc = NoFrame /\ out = <<>> /\ srvPending = <<>>
    /\ noiseLeft = NoiseBudget(files) /\ hist = <<>> /\ printed_defs = {}
    /\ printed_locations = {} /\ collected_defs = <<>>
    /\ last_logged = "none"
    /\ IdleCodec /\ IdleWait /\ IdlePure /\ IdleDrain

(***************************************************************************)
(* The main flow.                                                          *)
(***************************************************************************)
\* subprocess.Popen(["clangd", ...]) and the start of the stderr thread.
Popen ==
    /\ pc = "start"
    /\ proc' = "running"
    /\ started' = started + 1
    /\ stderr_thread' = "running"
    /\ pc' = "initialize"
    /\ UNCHANGED <<files, fi, ii, symbols, awaiting, resp, loc, out, srvPending,
                   noiseLeft, hist, printed_defs, printed_locations, collected_defs>>
    /\ UNCHANGED last_logged
    /\ UNCHANGED <<codecVars, waitVars, pureVars, drainVars>>

\* _initialize_lsp, first half: the initialize request, then the blocking read.
\* An initialize that does not wait for its response.
SendInitialize_NoWait ==
    /\ pc = "initialize"
    /\ hist' = Append(hist, SendEvent("initialize", INIT_MSG_ID))
    /\ srvPending' = Append(srvPending, Request("initialize", INIT_MSG_ID))
    /\ awaiting' = NoId
    /\ pc' = "init_done"
    /\ UNCHANGED <<proc, started, stderr_thread, files, fi, ii, symbols, resp, loc,
                   out, noiseLeft, printed_defs, printed_locations, collected_defs>>
    /\ UNCHANGED last_logged
    /\ UNCHANGED <<codecVars, waitVars, pureVars, drainVars>>

SendInitialize ==
    /\ pc = "initialize"
    /\ hist' = Append(hist, SendEvent("initialize", INIT_MSG_ID))
    /\ srvPending' = Append(srvPending, Request("initialize", INIT_MSG_ID))
    /\ awaiting' = INIT_MSG_ID
    /\ pc' = "init_wait"
    /\ UNCHANGED <<proc, started, stderr_thread, files, fi, ii, symbols, resp, loc,
                   out, noiseLeft, printed_defs, printed_locations, collected_defs>>
    /\ UNCHANGED last_logged
    /\ UNCHANGED <<codecVars, waitVars, pureVars, drainVars>>

\* _initialize_lsp, second half: the initialized notification; _setup_lsp_client
\* returns proc and _collect_definitions enters its loop over file_adds.
SendInitialized ==
    /\ pc = "init_done"
    /\ hist' = Append(hist, SendEvent("initialized", NoId))
    /\ fi' = 1
    /\ pc' = "next_file"
    /\ UNCHANGED <<proc, started, stderr_thread, files, ii, symbols, awaiting, resp,
                   loc, out, srvPending, noiseLeft, printed_defs, printed_locations,
                   collected_defs>>
    /\ UNCHANGED last_logged
    /\ UNCHANGED <<codecVars, waitVars, pureVars, drainVars>>

\* Where the main flow continues once its blocking read has returned.
AfterRead(p) ==
    CASE p = "init_wait" -> "init_done"
      [] p = "docsym_wait" -> "docsym_done"
      [] p = "l1_def_wait" -> "l1_def_done"
      [] p = "l1_sym_wait" -> "l1_sym_done"
      [] p = "l2_def_wait" -> "l2_def_done"
      [] p = "l2_sym_wait" -> "l2_sym_done"
      [] OTHER -> p

\* `expected_id is None or msg.get("id") == expected_id`.
\* A read that returns any frame carrying an id.
ReadMatches_AnyId(f, expected_id) == expected_id = NoId \/ f.id # NoId

ReadMatches(f, expected_id) == expected_id = NoId \/ f.id = expected_id

\* send_workDoneProgress_response: {"id": 0, "jsonrpc": "2.0", "result": None}.
WorkDoneProgressResponse == Event("send", "response", WORKDONE_RESPONSE_ID)

\* What one iteration of the dispatch loop writes to stdin for frame f that
\* was not returned.
DispatchSends(f) ==
    IF f.kind = "create" THEN <<WorkDoneProgressResponse>> ELSE <<>>

\* Whether one iteration of the dispatch loop writes frame f, which was not
\* returned, to the log: the create request, diagnostics and file status
\* are logged in their branches and any other frame by the last statement of
\* the loop, but the branch of a $/progress frame with the token
\* backgroundIndexProgress continues before its logging call.
DispatchLogs(f) == f.kind # "progress"

\* The events one iteration of the loop of _read_lsp_response adds for frame f.
ReadEvents(f, expected_id) ==
    (IF f.kind = "create" THEN <<Event("read", "create", f.id)>> ELSE <<>>)
    \o (IF ReadMatches(f, expected_id)
        THEN <<Event("ret", f.kind, f.id)>>
        ELSE DispatchSends(f))

\* One iteration of the loop of _read_lsp_response while the main flow is
\* blocked awaiting a response: the next frame is read and parsed; a body
\* json.loads rejects raises out of the pass; the frame with the awaited id
\* is returned; any other frame is dispatched and the loop continues.
ReadFrame ==
    /\ awaiting # NoId
    /\ out # <<>>
    /\ LET f == Head(out) IN
       /\ out' = Tail(out)
       /\ IF f.kind = "bad"
          THEN /\ pc' = "raised"
               /\ awaiting' = NoId
               /\ UNCHANGED <<resp, hist>>
          ELSE /\ hist' = hist \o ReadEvents(f, awaiting)
               /\ IF ReadMatches(f, awaiting)
                  THEN /\ resp' = f
                       /\ awaiting' = NoId
                       /\ pc' = AfterRead(pc)
                  ELSE UNCHANGED <<resp, awaiting, pc>>
    /\ last_logged' = LET f == Head(out) IN
                      IF f.kind # "bad" /\ ~ReadMatches(f, awaiting) /\ DispatchLogs(f)
                      THEN f.kind ELSE last_logged
    /\ UNCHANGED <<proc, started, stderr_thread, files, fi, ii, symbols, loc,
                   srvPending, noiseLeft, printed_defs, printed_locations,
                   collected_defs>>
    /\ UNCHANGED <<codecVars, waitVars, pureVars, drainVars>>

\* _collect_definitions after the last file: proc.terminate() and return.
Terminate ==
    /\ pc = "next_file"
    /\ fi > Len(files)
    /\ proc' = "terminated"
    /\ pc' = "done"
    /\ UNCHANGED <<started, stderr_thread, files, fi, ii, symbols, awaiting, resp,
                   loc, out, srvPending, noiseLeft, hist, printed_defs,
                   printed_locations, collected_defs>>
    /\ UNCHANGED last_logged
    /\ UNCHANGED <<codecVars, waitVars, pureVars, drainVars>>

\* _process_file_identifiers returns at once: the file does not exist or has
\* no lines.
SkipFile ==
    /\ pc = "next_file"
    /\ fi <= Len(files)
    /\ ~files[fi].exists
    /\ fi' = fi + 1
    /\ UNCHANGED <<pc, proc, started, stderr_thread, files, ii, symbols, awaiting,
                   resp, loc, out, srvPending, noiseLeft, hist, printed_defs,
                   printed_locations, collected_defs>>
    /\ UNCHANGED last_logged
    /\ UNCHANGED <<codecVars, waitVars, pureVars, drainVars>>

\* _process_file_identifiers: didOpen of the diffed file, then its
\* documentSymbol request and the blocking read.
OpenFile ==
    /\ pc = "next_file"
    /\ fi <= Len(files)
    /\ files[fi].exists
    /\ hist' = hist \o <<SendEvent("textDocument/didOpen", NoId),
                         SendEvent("textDocument/documentSymbol", DOC_SYMBOL_MSG_ID)>>
    /\ srvPending' = Append(srvPending,
                            Request("textDocument/documentSymbol", DOC_SYMBOL_MSG_ID))
    /\ awaiting' = DOC_SYMBOL_MSG_ID
    /\ pc' = "docsym_wait"
    /\ UNCHANGED <<proc, started, stderr_thread, files, fi, ii, symbols, resp, loc,
                   out, noiseLeft, printed_defs, printed_locations, collected_defs>>
    /\ UNCHANGED last_logged
    /\ UNCHANGED <<codecVars, waitVars, pureVars, drainVars>>

\* symbols = symbol_resp.get("result", []); the first loop starts.
DocSymbolsReturned ==
    /\ pc = "docsym_done"
    /\ symbols' = resp.res
    /\ ii' = 1
    /\ pc' = "loop1"
    /\ UNCHANGED <<proc, started, stderr_thread, files, fi, awaiting, resp, loc, out,
                   srvPending, noiseLeft, hist, printed_defs, printed_locations,
                   collected_defs>>
    /\ UNCHANGED last_logged
    /\ UNCHANGED <<codecVars, waitVars, pureVars, drainVars>>

\* _find_definition: the definition request of the identifier at index ii.
SendDefinition(waitPc) ==
    /\ hist' = Append(hist, SendEvent("textDocument/definition", DEFINITION_MSG_ID))
    /\ srvPending' = Append(srvPending,
                            Request("textDocument/definition", DEFINITION_MSG_ID))
    /\ awaiting' = DEFINITION_MSG_ID
    /\ pc' = waitPc

\* _get_document_symbols: didOpen of the defining file and its documentSymbol
\* request.
SendDocumentSymbols(waitPc) ==
    /\ hist' = hist \o <<SendEvent("textDocument/didOpen", NoId),
                         SendEvent("textDocument/documentSymbol", SYMBOL_MSG_ID)>>
    /\ srvPending' = Append(srvPending,
                            Request("textDocument/documentSymbol", SYMBOL_MSG_ID))
    /\ awaiting' = SYMBOL_MSG_ID
    /\ pc' = waitPc

\* A test that takes every result for a location.
NoResult_Never(f) == FALSE

\* `not resp.get("result") or len(resp["result"]) == 0`.
NoResult(f) == f.res = "empty"

\* First loop over idents_with_pos (the warm-up lookups): the next identifier.
Loop1Definition ==
    /\ pc = "loop1"
    /\ ii <= Len(files[fi].idents)
    /\ SendDefinition("l1_def_wait")
    /\ UNCHANGED <<proc, started, stderr_thread, files, fi, ii, symbols, resp, loc,
                   out, noiseLeft, printed_defs, printed_locations, collected_defs>>
    /\ UNCHANGED last_logged
    /\ UNCHANGED <<codecVars, waitVars, pureVars, drainVars>>

\* First loop: the definition response; an empty result or an unreadable
\* defining file skips the identifier.
Loop1DefinitionReturned ==
    /\ pc = "l1_def_done"
    /\ \E readable \in BOOLEAN :
         IF NoResult(resp) \/ ~readable
         THEN /\ ii' = ii + 1
              /\ pc' = "loop1"
              /\ UNCHANGED <<hist, srvPending, awaiting>>
         ELSE /\ SendDocumentSymbols("l1_sym_wait")
              /\ UNCHANGED ii
    /\ UNCHANGED <<proc, started, stderr_thread, files, fi, symbols, resp, loc, out,
                   noiseLeft, printed_defs, printed_locations, collected_defs>>
    /\ UNCHANGED last_logged
    /\ UNCHANGED <<codecVars, waitVars, pureVars, drainVars>>

\* First loop: the documentSymbol response is discarded.
Loop1SymbolsReturned ==
    /\ pc = "l1_sym_done"
    /\ ii' = ii + 1
    /\ pc' = "loop1"
    /\ UNCHANGED <<proc, started, stderr_thread, files, fi, symbols, awaiting, resp,
                   loc, out, srvPending, noiseLeft, hist, printed_defs,
                   printed_locations, collected_defs>>
    /\ UNCHANGED last_logged
    /\ UNCHANGED <<codecVars, waitVars, pureVars, drainVars>>

\* End of the first loop: time.sleep(15), then the second loop starts.
Loop1Done ==
    /\ pc = "loop1"
    /\ ii > Len(files[fi].idents)
    /\ ii' = 1
    /\ pc' = "loop2"
    /\ UNCHANGED <<proc, started, stderr_thread, files, fi, symbols, awaiting, resp,
                   loc, out, srvPending, noiseLeft, hist, printed_defs,
                   printed_locations, collected_defs>>
    /\ UNCHANGED last_logged
    /\ UNCHANGED <<codecVars, waitVars, pureVars, drainVars>>

\* A name test that never finds the name.
AlreadyPrinted_Never(ident) == FALSE

\* `if ident in printed_defs`.
AlreadyPrinted(ident) == ident \in printed_defs

\* Second loop: an identifier whose name is already in printed_defs is skipped.
Loop2Skip ==
    /\ pc = "loop2"
    /\ ii <= Len(files[fi].idents)
    /\ AlreadyPrinted(files[fi].idents[ii])
    /\ ii' = ii + 1
    /\ UNCHANGED <<pc, proc, started, stderr_thread, files, fi, symbols, awaiting,
                   resp, loc, out, srvPending, noiseLeft, hist, printed_defs,
                   printed_locations, collected_defs>>
    /\ UNCHANGED last_logged
    /\ UNCHANGED <<codecVars, waitVars, pureVars, drainVars>>

\* Second loop: the definition request of the next identifier.
Loop2Definition ==
    /\ pc = "loop2"
    /\ ii <= Len(files[fi].idents)
    /\ ~AlreadyPrinted(files[fi].idents[ii])
    /\ SendDefinition("l2_def_wait")
    /\ UNCHANGED <<proc, started, stderr_thread, files, fi, ii, symbols, resp, loc,
                   out, noiseLeft, printed_defs, printed_locations, collected_defs>>
    /\ UNCHANGED last_logged
    /\ UNCHANGED <<codecVars, waitVars, pureVars, drainVars>>

\* Second loop: the definition response.
Loop2DefinitionReturned ==
    /\ pc = "l2_def_done"
    /\ \E readable \in BOOLEAN :
         IF NoResult(resp) \/ ~readable
         THEN /\ ii' = ii + 1
              /\ pc' = "loop2"
              /\ UNCHANGED <<hist, srvPending, awaiting, loc>>
         ELSE /\ SendDocumentSymbols("l2_sym_wait")
              /\ loc' = resp
              /\ UNCHANGED ii
    /\ UNCHANGED <<proc, started, stderr_thread, files, fi, symbols, resp, out,
                   noiseLeft, printed_defs, printed_locations, collected_defs>>
    /\ UNCHANGED last_logged
    /\ UNCHANGED <<codecVars, waitVars, pureVars, drainVars>>

\* The (def_file, start, end) triple: the file of the definition location
\* with the range of the symbol _get_document_symbols found, else with the
\* range of the location.
DefLoc(loc_resp, symbol_resp) ==
    IF NoResult(symbol_resp) THEN <<"loc_range", loc_resp.res>>
    ELSE <<"symbol_range", symbol_resp.res>>

\* A location test that never finds the location.
LocationPrinted_Never(def_loc) == FALSE

\* A location test that knows only the ranges taken from a symbol.
LocationPrinted_SymbolRangeOnly(def_loc) ==
    def_loc[1] = "symbol_range" /\ def_loc \in printed_locations

\* `if def_loc in printed_locations`.
LocationPrinted(def_loc) == def_loc \in printed_locations

\* The symbol of the diffed file that encloses other symbols.
ParentSymbols == {"p"}

\* _collect_definition: the entry appended to collected_defs[def_file] for
\* an identifier: the range of the parent symbol if one was found, else the
\* range of def_loc.  def_file is the diffed file (its index) or the one
\* other file definitions lie in (0); def_loc and nested (whether the
\* definition has an enclosing symbol in the symbol tree of its own file)
\* are kept with the entry.
CollectedEntry(def_loc, identifier, parent, nested, def_file) ==
    [at |-> IF parent # "none" THEN "parent_range" ELSE "own_range",
     label |-> IF parent # "none" THEN "parent_of" ELSE "own",
     range |-> IF parent # "none" THEN <<"range_of", parent>> ELSE def_loc,
     identifier |-> identifier,
     def_file |-> def_file,
     def_loc |-> def_loc,
     nested |-> nested]

\* What _find_symbol_and_parent can find in `symbols`, the symbol tree of
\* the diffed file: no parent if the tree is empty; if the definition is in
\* the diffed file, a parent only if the definition has one; if it is in
\* another file, whatever the diffed file's tree holds under that name and
\* line.
ParentsFound(same_file, nested) ==
    IF symbols = "empty" THEN {"none"}
    ELSE IF same_file /\ ~nested THEN {"none"}
    ELSE {"none"} \cup ParentSymbols

\* Second loop: the documentSymbol response of the defining file; the
\* location is deduplicated, the parent symbol is looked up in the symbols
\* of the diffed file, and the definition is recorded.
Loop2SymbolsReturned ==
    /\ pc = "l2_sym_done"
    /\ LET ident == files[fi].idents[ii]
           def_loc == DefLoc(loc, resp)
       IN IF LocationPrinted(def_loc)
          THEN UNCHANGED <<printed_defs, printed_locations, collected_defs>>
          ELSE \E same_file, nested \in BOOLEAN :
               \E parent \in ParentsFound(same_file, nested) :
                 /\ collected_defs' =
                        Append(collected_defs,
                               CollectedEntry(def_loc, ident, parent, nested,
                                              IF same_file THEN fi ELSE 0))
                 /\ printed_defs' = printed_defs \cup {ident}
                 /\ printed_locations' = printed_locations \cup {def_loc}
    /\ ii' = ii + 1
    /\ pc' = "loop2"
    /\ UNCHANGED <<proc, started, stderr_thread, files, fi, symbols, awaiting, resp,
                   loc, out, srvPending, noiseLeft, hist>>
    /\ UNCHANGED last_logged
    /\ UNCHANGED <<codecVars, waitVars, pureVars, drainVars>>

\* End of the second loop: _process_file_identifiers returns.
Loop2Done ==
    /\ pc = "loop2"
    /\ ii > Len(files[fi].idents)
    /\ fi' = fi + 1
    /\ pc' = "next_file"
    /\ UNCHANGED <<proc, started, stderr_thread, files, ii, symbols, awaiting, resp,
                   loc, out, srvPending, noiseLeft, hist, printed_defs,
                   printed_locations, collected_defs>>
    /\ UNCHANGED last_logged
    /\ UNCHANGED <<codecVars, waitVars, pureVars, drainVars>>

(***************************************************************************)
(* The analysis server (the environment of the pass).                      *)
(***************************************************************************)
\* The server answers the oldest request it has not answered yet; a server
\* that is blocked writing to its error stream answers nothing.
ServerRespond ==
    /\ proc = "running"
    /\ ~err_blocked
    /\ srvPending # <<>>
    /\ Len(out) < MaxQueue
    /\ \E r \in (IF Head(srvPending).id \in {DEFINITION_MSG_ID, SYMBOL_MSG_ID}
                THEN Results ELSE {"empty", "loc"}) :
         out' = Append(out, Frame("resp", Head(srvPending).id, r))
    /\ srvPending' = Tail(srvPending)
    /\ UNCHANGED <<pc, proc, started, stderr_thread, files, fi, ii, symbols, awaiting,
                   resp, loc, noiseLeft, hist, printed_defs, printed_locations,
                   collected_defs>>
    /\ UNCHANGED last_logged
    /\ UNCHANGED <<codecVars, waitVars, pureVars, drainVars>>

\* The server has sent its response to the initialize request.  Until then
\* the protocol lets it send no request and no notification other than log
\* and message notifications.
ServerInitialized ==
    /\ hist # <<>>
    /\ \A k \in 1..Len(srvPending) : srvPending[k].method # "initialize"

\* The server sends a frame nobody asked for: a request of its own, a
\* notification, or a frame with a malformed body.
ServerNoise ==
    /\ proc = "running"
    /\ noiseLeft > 0
    /\ Len(out) < MaxQueue
    /\ \E f \in NoiseFrames :
         /\ f.kind \in {"other", "bad"} \/ ServerInitialized
         /\ out' = Append(out, f)
    /\ noiseLeft' = noiseLeft - 1
    /\ UNCHANGED <<pc, proc, started, stderr_thread, files, fi, ii, symbols, awaiting,
                   resp, loc, srvPending, hist, printed_defs, printed_locations,
                   collected_defs>>
    /\ UNCHANGED last_logged
    /\ UNCHANGED <<codecVars, waitVars, pureVars, drainVars>>

ClientStep ==
    \/ Popen
    \/ SendInitialize
    \/ ReadFrame
    \/ SendInitialized
    \/ Terminate
    \/ SkipFile
    \/ OpenFile
    \/ DocSymbolsReturned
    \/ Loop1Definition
    \/ Loop1DefinitionReturned
    \/ Loop1SymbolsReturned
    \/ Loop1Done
    \/ Loop2Skip
    \/ Loop2Definition
    \/ Loop2DefinitionReturned
    \/ Loop2SymbolsReturned
    \/ Loop2Done

Next == ClientStep \/ ServerRespond \/ ServerNoise

Spec == Init /\ [][Next]_vars

\* The main flow is a running thread and the server answers what it is asked.
FairSpec == Spec /\ WF_vars(ClientStep) /\ WF_vars(ServerRespond)

(***************************************************************************)
(* The error stream: the server writes lines to the pipe of proc.stderr,   *)
(* the daemon thread _stderr_reader of _setup_lsp_client reads them.  The   *)
(* main flow is a pass over files that need no identifier lookup.          *)
(***************************************************************************)
\* Lines the pipe of proc.stderr holds before a write to it blocks.
PipeCapacity == 2
MaxErrLines == 3

InitDrain ==
    /\ pc = "start" /\ proc = "none" /\ started = 0 /\ stderr_thread = "none"
    /\ files \in {fs \in SeqsUpTo(FileInputs, 1) \ {<<>>} : Occurrences(fs) = 0}
    /\ fi = 0 /\ ii = 0 /\ symbols = "empty" /\ awaiting = NoId
    /\ resp = NoFrame /\ loc = NoFrame /\ out = <<>> /\ srvPending = <<>>
    /\ noiseLeft = 0 /\ hist = <<>> /\ printed_defs = {}
    /\ printed_locations = {} /\ collected_defs = <<>>
    /\ last_logged = "none"
    /\ err_pipe = 0 /\ err_blocked = FALSE /\ err_left = MaxErrLines
    /\ IdleCodec /\ IdleWait /\ IdlePure

\* The server writes a line to its error stream (--log=error); the write
\* blocks while the pipe is full.
ServerWriteStderr ==
    /\ proc = "running"
    /\ ~err_blocked
    /\ err_left > 0
    /\ err_left' = err_left - 1
    /\ IF err_pipe < PipeCapacity
       THEN err_pipe' = err_pipe + 1 /\ UNCHANGED err_blocked
       ELSE err_blocked' = TRUE /\ UNCHANGED err_pipe
    /\ UNCHANGED <<passVars, codecVars, waitVars, pureVars>>

\* _stderr_reader: `with open(log_path, "w") as log_file`; an exception
\* ends the thread in its handler.
DrainOpenLog ==
    /\ stderr_thread = "running"
    /\ \E opened \in BOOLEAN :
         stderr_thread' = IF opened THEN "reading" ELSE "failed"
    /\ UNCHANGED <<pc, proc, started, files, fi, ii, symbols, awaiting, resp, loc,
                   out, srvPending, noiseLeft, hist, printed_defs,
                   printed_locations, collected_defs, last_logged>>
    /\ UNCHANGED <<codecVars, waitVars, pureVars, drainVars>>

\* _stderr_reader: stderr.readline(4096) returns a line, which is decoded,
\* logged and written to the log file; an exception of the write ends the
\* thread in its handler.  The line read makes room for a blocked write.
DrainReadLine ==
    /\ stderr_thread = "reading"
    /\ err_pipe > 0
    /\ err_pipe' = IF err_blocked THEN err_pipe ELSE err_pipe - 1
    /\ err_blocked' = FALSE
    /\ \E written \in BOOLEAN :
         stderr_thread' = IF written THEN "reading" ELSE "failed"
    /\ UNCHANGED err_left
    /\ UNCHANGED <<pc, proc, started, files, fi, ii, symbols, awaiting, resp, loc,
                   out, srvPending, noiseLeft, hist, printed_defs,
                   printed_locations, collected_defs, last_logged>>
    /\ UNCHANGED <<codecVars, waitVars, pureVars>>

\* _stderr_reader: readline returns b"" at end-of-stream (`if not line:
\* break`), once the server is gone and the pipe is empty.
DrainEof ==
    /\ stderr_thread = "reading"
    /\ err_pipe = 0
    /\ proc = "terminated"
    /\ stderr_thread' = "finished"
    /\ UNCHANGED <<pc, proc, started, files, fi, ii, symbols, awaiting, resp, loc,
                   out, srvPending, noiseLeft, hist, printed_defs,
                   printed_locations, collected_defs, last_logged>>
    /\ UNCHANGED <<codecVars, waitVars, pureVars, drainVars>>

DrainStep == DrainOpenLog \/ DrainReadLine \/ DrainEof

MainStep ==
    \/ Popen
    \/ SendInitialize
    \/ ReadFrame
    \/ SendInitialized
    \/ SkipFile
    \/ OpenFile
    \/ DocSymbolsReturned
    \/ Loop1Done
    \/ Loop2Done
    \/ Terminate

NextDrain == MainStep \/ DrainStep \/ ServerRespond \/ ServerWriteStderr

SpecDrain == InitDrain /\ [][NextDrain]_vars

\* Both threads run, and the server answers what it is asked unless it is
\* blocked.
FairSpecDrain ==
    SpecDrain /\ WF_vars(MainStep) /\ WF_vars(DrainStep) /\ WF_vars(ServerRespond)

\* Lines the server has written into the pipe, and lines read from it.
ErrWritten == MaxErrLines - err_left - (IF err_blocked THEN 1 ELSE 0)
ErrRead == ErrWritten - err_pipe

\* C33: every line the server writes to its error stream is eventually read
\* by the drain thread; the server is never blocked forever on a full error
\* pipe; the drain thread stops reading only at end-of-stream; a step of the
\* drain thread leaves the state of the main flow alone.
C33_ErrorStreamDrained ==
    /\ \A n \in 1..MaxErrLines : (ErrWritten >= n) ~> (ErrRead >= n)
    /\ (proc = "running" /\ err_blocked) ~> ~(proc = "running" /\ err_blocked)
    /\ [](stderr_thread \in {"finished", "failed"}
            => (proc = "terminated" /\ err_pipe = 0))
    /\ [][(stderr_thread # "none" /\ stderr_thread' # stderr_thread)
               \/ err_pipe' < err_pipe
            => UNCHANGED <<pc, proc, awaiting, resp, out, srvPending, hist, fi, ii>>]_vars

(***************************************************************************)
(* Properties of the pass.                                                 *)
(***************************************************************************)
IsRequestSend(e) == e.ev = "send" /\ e.what \in RequestMethods

\* The indices of hist at which a client request was sent.
RequestIndices == {i \in 1..Len(hist) : IsRequestSend(hist[i])}

\* C1: in every pass exactly one server process is started, and when the
\* pass has ended, normally or by an exception, that process has been
\* terminated.
C1_OneServerAlwaysTerminated ==
    /\ started <= 1
    /\ pc \in {"done", "raised"} => (started = 1 /\ proc = "terminated")

\* C2: the initialized notification is sent only after the response to the
\* initialize request has been received, and no didOpen, definition or
\* documentSymbol message is sent before the initialized notification.
C2_HandshakeOrdering ==
    \A i \in 1..Len(hist) :
        /\ hist[i] = SendEvent("initialized", NoId)
              => \E j \in 1..(i - 1) : hist[j] = Event("ret", "resp", INIT_MSG_ID)
        /\ (hist[i].ev = "send" /\ hist[i].what \in
                {"textDocument/didOpen", "textDocument/definition",
                 "textDocument/documentSymbol"})
              => \E j \in 1..(i - 1) : hist[j] = SendEvent("initialized", NoId)

\* The handshake is over and a request of the Ready state has been sent.
C2_Witness ==
    \E i \in 1..Len(hist) : hist[i] = SendEvent("textDocument/definition", DEFINITION_MSG_ID)

\* A step of the blocking read: the frame at the head of the stream is
\* consumed, and unless its body is malformed it is returned exactly when
\* its id is the awaited one.
C3_ReadStep ==
    (awaiting # NoId /\ out # <<>> /\ out' = Tail(out) /\ Head(out).kind # "bad")
        => ((awaiting' = NoId /\ resp' = Head(out) /\ pc' # pc)
               <=> Head(out).id = awaiting)

\* A frame with the awaited id is on the stream behind well-formed frames only.
C3_MatchAhead ==
    /\ awaiting # NoId
    /\ \E i \in 1..Len(out) :
          /\ out[i].id = awaiting
          /\ \A j \in 1..(i - 1) : out[j].kind # "bad" /\ out[j].id # awaiting

\* C3: a blocking read for id X consumes frames in arrival order, absorbs
\* every frame whose id is not X, returns at the first frame whose id is X
\* and never returns another frame; and once a frame with id X is on the
\* stream, the read eventually returns.
C3_BlockingReadReturnsAwaitedId ==
    /\ [][C3_ReadStep]_vars
    /\ (C3_MatchAhead ~> (awaiting = NoId /\ pc # "raised" /\ resp.id # NoId))

\* A read has absorbed a server request and then returned the frame with the
\* awaited id.
C3_Witness ==
    \E i \in 1..(Len(hist) - 2) :
        /\ hist[i] = Event("read", "create", WORKDONE_RESPONSE_ID)
        /\ hist[i + 2] = Event("ret", "resp", DEFINITION_MSG_ID)

\* C4: every window/workDoneProgress/create request read while a response is
\* awaited is answered by one response with id 0 and a null result, sent
\* before the next frame is read or the awaited response is returned.
C4_CreateAnswered ==
    \A i \in 1..Len(hist) :
        (hist[i].ev = "read" /\ hist[i].what = "create")
            => (i < Len(hist) /\ hist[i + 1] = WorkDoneProgressResponse)

\* C34: the acknowledgment the client sends for a
\* window/workDoneProgress/create request carries the id of that request:
\* every response the client writes directly follows the read of a create
\* request with the same id, and every create request read is followed by
\* the response with its id.
C34_AckCarriesRequestId ==
    \A i \in 1..Len(hist) :
        /\ (hist[i].ev = "send" /\ hist[i].what = "response")
              => (i > 1 /\ hist[i - 1] = Event("read", "create", hist[i].id))
        /\ (hist[i].ev = "read" /\ hist[i].what = "create")
              => (i < Len(hist) /\ hist[i + 1] = Event("send", "response", hist[i].id))

\* The requests sent whose response the client has not received yet.
Outstanding ==
    Cardinality(RequestIndices)
    - Cardinality({i \in 1..Len(hist) : hist[i].ev = "ret" /\ hist[i].what = "resp"})

\* C5: at most one client request is outstanding at any time: a request is
\* sent only after the response to the previous one has been received.
C5_AtMostOneOutstanding == Outstanding <= 1

\* C6: over the requests of a session the ids are strictly increasing.
C6_IdsStrictlyIncreasing ==
    \A i, j \in RequestIndices : i < j => hist[i].id < hist[j].id

\* C6, as the code has it: every request carries the fixed id of its message
\* type (initialize 1, definition 2, documentSymbol 3 for a defining file
\* and 100 for the diffed file), so two requests with the same id are of the
\* same type.
C6_IdsFixedPerType ==
    /\ \A i \in RequestIndices :
          /\ hist[i].what = "initialize" => hist[i].id = 1
          /\ hist[i].what = "textDocument/definition" => hist[i].id = 2
          /\ hist[i].what = "textDocument/documentSymbol" => hist[i].id \in {3, 100}
    /\ \A i, j \in RequestIndices :
          hist[i].id = hist[j].id => hist[i].what = hist[j].what

\* Two definition requests of one session carry the same id.
C6_Witness ==
    \E i, j \in RequestIndices :
        /\ i < j
        /\ hist[i] = SendEvent("textDocument/definition", 2)
        /\ hist[j] = hist[i]

\* An iteration of the dispatch loop that reads a $/progress frame with the
\* token backgroundIndexProgress while a response is awaited: the frame is
\* logged and the waiter holds its value afterwards.
C21_Step ==
    (awaiting # NoId /\ out # <<>> /\ out' = Tail(out) /\ Head(out).kind = "progress")
        => /\ last_logged' = "progress"
           /\ w_msg'.message # "none"

\* C21: a $/progress notification of background indexing that the dispatch
\* loop reads while a response is awaited is logged and its progress value
\* is delivered to the IndexWaiter; it is not silently dropped.
C21_ProgressLoggedAndDelivered == [][C21_Step]_vars

\* C24: no textDocument/definition request whose result is used is sent
\* before the IndexWaiter has run and returned, by reaching 100, by
\* staleness or by the hard ceiling.
C24_DefinitionsGated ==
    pc \in {"l2_def_wait", "l2_def_done", "l2_sym_wait", "l2_sym_done"}
        => (w_pc = "returned" /\ w_exit \in {"complete", "stale", "ceiling"})

\* C22: the frame a blocking read returns for a request is the server's
\* response to that very request: never a frame that carries a method (a
\* server request or a notification) with the awaited id, and never the
\* response to an earlier request of the same id.  The server answers in
\* order, so the k-th response of an id answers the k-th request of that id.
C22_ResponseCorrelation ==
    \A i \in 1..Len(hist) :
        hist[i].ev = "ret" =>
            /\ hist[i].what = "resp"
            /\ Cardinality({j \in 1..i : hist[j] = Event("ret", "resp", hist[i].id)})
                  = Cardinality({j \in RequestIndices : j < i /\ hist[j].id = hist[i].id})

\* C32: while the documentSymbol request of an identifier's defining file is
\* out, the response to that identifier's definition request has been
\* received (the server answers in order, so none of its definition
\* responses is still to come), both requests went to the one server of the
\* pass, and the request sent last before the documentSymbol request is that
\* definition request, returned from in between.
C32_DefinitionThenSymbols ==
    pc \in {"l1_sym_wait", "l2_sym_wait"} =>
        /\ proc = "running" /\ started = 1
        /\ \A k \in 1..Len(srvPending) :
              srvPending[k].method # "textDocument/definition"
        /\ \A k \in 1..Len(out) :
              ~(out[k].kind = "resp" /\ out[k].id = DEFINITION_MSG_ID)
        /\ \E i, j \in RequestIndices :
              /\ i < j
              /\ \A k \in RequestIndices : k <= i \/ k = j
              /\ hist[i] = SendEvent("textDocument/definition", DEFINITION_MSG_ID)
              /\ hist[j] = SendEvent("textDocument/documentSymbol", SYMBOL_MSG_ID)
              /\ \E r \in (i + 1)..(j - 1) :
                    hist[r].ev = "ret" /\ hist[r].id = DEFINITION_MSG_ID

\* The step of the second loop after a definition response without a
\* result: the identifier is dropped and the loop goes on.
C29_Step ==
    (pc = "l2_def_done" /\ resp.res = "empty" /\ pc' # pc)
        => /\ collected_defs' = collected_defs
           /\ printed_defs' = printed_defs
           /\ printed_locations' = printed_locations
           /\ hist' = hist
           /\ srvPending' = srvPending
           /\ pc' = "loop2"
           /\ ii' = ii + 1

\* C29: an identifier whose definition response has an empty or missing
\* result is skipped: the collected definitions and both dedup sets are
\* unchanged, no documentSymbol request is sent for it, and the pass
\* continues with the next identifier.
C29_EmptyResultSkipped == [][C29_Step]_vars

\* The first of two identifiers got an empty result and was skipped; the
\* definition request of the second one is out.
C29_Witness ==
    /\ pc = "l2_def_wait"
    /\ ii = 2
    /\ resp = Frame("resp", DEFINITION_MSG_ID, "empty")
    /\ collected_defs = <<>>
    /\ printed_defs = {}
    /\ hist[Len(hist)] = SendEvent("textDocument/definition", DEFINITION_MSG_ID)
    /\ hist[Len(hist) - 1] = Event("ret", "resp", DEFINITION_MSG_ID)

\* The definition requests sent so far.
DefinitionSends ==
    {i \in 1..Len(hist) : hist[i] = SendEvent("textDocument/definition", DEFINITION_MSG_ID)}

\* The names and the locations of the entries recorded so far.
RecordedNames == {collected_defs[i].identifier : i \in 1..Len(collected_defs)}
RecordedLocations == {collected_defs[i].def_loc : i \in 1..Len(collected_defs)}

\* The step after a documentSymbol response of the defining file that holds
\* no symbol of the identifier's name, and what it records.
C28_Step ==
    (pc = "l2_sym_done" /\ resp.res = "empty" /\ pc' # pc)
        => /\ pc' = "loop2"
           /\ ii' = ii + 1
           /\ IF <<"loc_range", loc.res>> \in RecordedLocations
              THEN collected_defs' = collected_defs
              ELSE /\ Len(collected_defs') = Len(collected_defs) + 1
                   /\ LET entry == collected_defs'[Len(collected_defs')] IN
                      /\ entry.identifier = files[fi].idents[ii]
                      /\ entry.def_loc = <<"loc_range", loc.res>>
                      /\ entry.at = "own_range"
                      /\ entry.label = "own"

\* C28: when the documentSymbol lookup of the defining file yields no symbol
\* matching the identifier, the resolution is not an error, and the range
\* recorded is the range of the first location of the definition response,
\* under the plain identifier label.
C28_RawRangePlainLabel == [][C28_Step]_vars

\* C13: when the definition of an identifier lies inside an enclosing symbol
\* of the defining file's symbol tree, the entry recorded for it carries the
\* parent's range under the label parent_of_<identifier>, not its own range.
C13_ParentRangeRecorded ==
    \A i \in 1..Len(collected_defs) :
        collected_defs[i].nested
            => /\ collected_defs[i].label = "parent_of"
               /\ collected_defs[i].at = "parent_range"

\* With the name of the next occurrence recorded already, the occurrence is
\* passed over: nothing is sent and nothing is recorded.
C15_Step ==
    (/\ pc = "loop2" /\ ii <= Len(files[fi].idents)
     /\ files[fi].idents[ii] \in RecordedNames)
        => /\ collected_defs' = collected_defs
           /\ hist' = hist
           /\ pc' = "loop2"
           /\ ii' \in {ii, ii + 1}

\* C15: a name contributes at most one entry to the collected definitions
\* of a pass, and once it has one every later occurrence of the name is
\* skipped without recording anything.
C15_NameDedup ==
    /\ [](\A i, j \in 1..Len(collected_defs) :
             i # j => collected_defs[i].identifier # collected_defs[j].identifier)
    /\ [][C15_Step]_vars

\* The first of two occurrences of a name was recorded and the second one
\* skipped: three definition requests (two of the first loop) and one entry.
C15_Witness ==
    /\ pc = "loop2"
    /\ files[fi].idents = <<"a", "a">>
    /\ ii = 3
    /\ Len(collected_defs) = 1
    /\ Cardinality(DefinitionSends) = 3

\* The step after the documentSymbol response of the defining file: a
\* location recorded already adds nothing, another one adds its entry.
C16_Step ==
    (pc = "l2_sym_done" /\ pc' # pc)
        => IF DefLoc(loc, resp) \in RecordedLocations
           THEN collected_defs' = collected_defs
           ELSE /\ Len(collected_defs') = Len(collected_defs) + 1
                /\ collected_defs'[Len(collected_defs')].def_loc = DefLoc(loc, resp)
                /\ collected_defs'[Len(collected_defs')].identifier = files[fi].idents[ii]

\* C16: identifiers of different names that resolve to the same (file,
\* start, end) triple contribute one entry, identifiers that resolve to
\* different triples one entry each.
C16_LocationDedup ==
    /\ [](\A i, j \in 1..Len(collected_defs) :
             i # j => collected_defs[i].def_loc # collected_defs[j].def_loc)
    /\ [][C16_Step]_vars

\* Identifiers a and b resolved to the same triple: b's documentSymbol read
\* has returned, and the one entry is a's.
C16_Witness ==
    /\ pc = "loop2"
    /\ files[fi].idents = <<"a", "b">>
    /\ ii = 3
    /\ Len(collected_defs) = 1
    /\ collected_defs[1].identifier = "a"
    /\ collected_defs[1].def_loc = DefLoc(loc, resp)
    /\ hist[Len(hist)] = Event("ret", "resp", SYMBOL_MSG_ID)

\* A step that changes the collected definitions or one of the dedup sets
\* is the recording step, and adds one entry, one new name and one new
\* triple.
C36_Step ==
    (\/ collected_defs' # collected_defs
     \/ printed_defs' # printed_defs
     \/ printed_locations' # printed_locations)
        => /\ pc = "l2_sym_done"
           /\ Len(collected_defs') = Len(collected_defs) + 1
           /\ SubSeq(collected_defs', 1, Len(collected_defs)) = collected_defs
           /\ \E name \in Names \ printed_defs : printed_defs' = printed_defs \cup {name}
           /\ Cardinality(printed_locations') = Cardinality(printed_locations) + 1
           /\ printed_locations \subseteq printed_locations'

\* C36: at every point of a pass the number of entries of the collected
\* definitions equals the size of the resolved-names set and the size of the
\* recorded-triples set; each recording step adds one entry, one new name
\* and one new triple, and no other step changes any of the three.
C36_CountsAgree ==
    /\ [](/\ Len(collected_defs) = Cardinality(printed_defs)
          /\ Len(collected_defs) = Cardinality(printed_locations))
    /\ [][C36_Step]_vars

\* Two identifiers have been recorded: two entries, two names, two triples.
C36_Witness ==
    /\ pc = "loop2"
    /\ Len(collected_defs) = 2
    /\ Cardinality(printed_defs) = 2
    /\ Cardinality(printed_locations) = 2

\* C37: the collected definitions never hold two entries for the same
\* defining file with the same (start line, end line) range, whichever
\* identifiers and parent symbols the entries were recorded from.
C37_NoDuplicateRange ==
    \A i, j \in 1..Len(collected_defs) :
        (/\ i # j
         /\ collected_defs[i].def_file = collected_defs[j].def_file)
            => collected_defs[i].range # collected_defs[j].range

\* C17: the definition request of an identifier occurrence is issued exactly
\* once: a pass sends no more definition requests than it has occurrences.
C17_DefinitionRequestedOnce ==
    Cardinality(DefinitionSends) <= Occurrences(files)

(***************************************************************************)
(* The IndexWaiter: wait_for_clangd_indexing(proc, max_total_wait,         *)
(* max_stale_time, interval, max_interval).  Time passes while the waiter  *)
(* sleeps and while it reads a frame.                                      *)
(***************************************************************************)
Min(a, b) == IF a < b THEN a ELSE b

\* The arguments of a call: interval < max_interval <= max_total_wait as
\* in the defaults (1, 10, 600), with a max_interval reached by one doubling
\* and one reached by two, and with a max_stale_time the interval can reach
\* and one it cannot (the default, 60, is above max_interval).
WaitArgs ==
    {[max_total_wait |-> MaxTotalWait, max_stale_time |-> mi + d,
      interval |-> 1, max_interval |-> mi] :
        mi \in {MaxInterval, 2 * MaxInterval}, d \in {0, 2}}

\* params["value"] of a $/progress frame with token backgroundIndexProgress:
\* the percentage (NoId: none) and the rest of the value.
ProgressValues ==
    {[percentage |-> p, message |-> m] : p \in {10, 100}, m \in {"x", "y"}}
    \cup {[percentage |-> NoId, message |-> "x"]}

\* Time one _read_lsp_response call may take.
ReadCosts == {0, 1}

InitWait ==
    /\ w_pc = "outer"
    /\ w_args \in WaitArgs
    /\ last_percentage = NoId
    /\ last_value = <<>>
    /\ waited = 0
    /\ current_interval = w_args.interval
    /\ message_read = FALSE
    /\ elapsed = 0
    /\ w_obs = 0
    /\ w_exit = "none"
    /\ w_left = MaxWaitFrames
    /\ w_since = 0
    /\ w_msg = [percentage |-> NoId, message |-> "none"]
    /\ w_slept = NoId
    /\ IdlePass /\ IdleCodec /\ IdlePure /\ IdleDrain

\* `while time.time() - start_time < max_total_wait`, and the warning after
\* the loop.
WaitOuter ==
    /\ w_pc = "outer"
    /\ IF elapsed < w_args.max_total_wait
       THEN /\ message_read' = FALSE
            /\ w_pc' = "poll"
            /\ UNCHANGED w_exit
       ELSE /\ w_pc' = "returned"
            /\ w_exit' = "ceiling"
            /\ UNCHANGED message_read
    /\ UNCHANGED <<w_args, last_percentage, last_value, waited, current_interval,
                   elapsed, w_obs, w_left, w_since, w_msg>>
    /\ UNCHANGED w_slept
    /\ UNCHANGED <<passVars, codecVars, pureVars, drainVars>>

\* An end of the inner loop that sleeps and keeps the interval as it is.
AfterInnerLoop_NoDoubling(now) ==
    /\ w_pc' = "outer"
    /\ IF ~message_read
       THEN /\ elapsed' = now + current_interval
            /\ w_slept' = current_interval
            /\ waited' = waited + current_interval
            /\ UNCHANGED current_interval
       ELSE /\ elapsed' = now
            /\ UNCHANGED <<current_interval, waited, w_slept>>

\* The end of the inner loop (break): with no message read in this round the
\* waiter sleeps and doubles the interval.
AfterInnerLoop(now) ==
    /\ w_pc' = "outer"
    /\ IF ~message_read
       THEN /\ elapsed' = now + current_interval
            /\ w_slept' = current_interval
            /\ current_interval' = Min(current_interval * 2, w_args.max_interval)
            /\ waited' = waited + current_interval'
       ELSE /\ elapsed' = now
            /\ UNCHANGED <<current_interval, waited, w_slept>>

\* select() finds nothing to read.
WaitPollEmpty ==
    /\ w_pc = "poll"
    /\ elapsed <= MaxClock
    /\ AfterInnerLoop(elapsed)
    /\ UNCHANGED <<w_args, last_percentage, last_value, message_read, w_obs, w_exit,
                   w_left, w_since, w_msg>>
    /\ UNCHANGED <<passVars, codecVars, pureVars, drainVars>>

\* The read raises (a malformed frame): the exception is logged and ends the
\* inner loop; message_read keeps its value.
WaitPollBad ==
    /\ w_pc = "poll"
    /\ w_left > 0
    /\ w_left' = w_left - 1
    /\ \E c \in ReadCosts :
         /\ elapsed + c <= MaxClock
         /\ AfterInnerLoop(elapsed + c)
    /\ w_msg' = [percentage |-> NoId, message |-> "malformed"]
    /\ UNCHANGED <<w_args, last_percentage, last_value, message_read, w_obs, w_exit,
                   w_since>>
    /\ UNCHANGED <<passVars, codecVars, pureVars, drainVars>>

\* A frame that is no backgroundIndexProgress $/progress frame with a value
\* dict (a server request, a diagnostic, another token): logged, nothing else.
\* The read is _read_lsp_response(proc) with expected_id None, which writes
\* to stdin what its dispatch loop writes for a frame it does not return.
WaitPollOther ==
    /\ w_pc = "poll"
    /\ w_left > 0
    /\ w_left' = w_left - 1
    /\ \E c \in ReadCosts :
         /\ elapsed + c <= MaxClock
         /\ elapsed' = elapsed + c
    /\ message_read' = TRUE
    /\ \E f \in {Frame("create", WORKDONE_RESPONSE_ID, "empty"),
                 Frame("other", NoId, "empty")} :
         /\ w_msg' = [percentage |-> NoId, message |-> f.kind]
         /\ hist' = hist \o (IF ReadMatches(f, NoId) THEN <<>> ELSE DispatchSends(f))
    /\ UNCHANGED <<w_pc, w_args, last_percentage, last_value, waited,
                   current_interval, w_obs, w_exit, w_since>>
    /\ UNCHANGED w_slept
    /\ UNCHANGED <<pc, proc, started, stderr_thread, files, fi, ii, symbols,
                   awaiting, resp, loc, out, srvPending, noiseLeft, printed_defs,
                   printed_locations, collected_defs, last_logged>>
    /\ UNCHANGED <<codecVars, pureVars, drainVars>>

\* `current_interval >= max_stale_time`: the test that ends the wait on a
\* progress frame equal to the last one.
StaleLimitReached(stale_time, interval_now, max_stale_time) ==
    interval_now >= max_stale_time

\* A percentage that never counts as complete.
IndexingComplete_Never(percentage) == FALSE

\* `if percentage == 100: return`.
IndexingComplete(percentage) == percentage = 100

\* A backgroundIndexProgress frame with value v.
WaitPollProgress ==
    /\ w_pc = "poll"
    /\ w_left > 0
    /\ w_left' = w_left - 1
    /\ \E c \in ReadCosts :
         /\ elapsed + c <= MaxClock
         /\ elapsed' = elapsed + c
    /\ message_read' = TRUE
    /\ \E v \in ProgressValues :
         (w_msg' = v) /\
         IF v.percentage = NoId
         THEN UNCHANGED <<w_pc, last_percentage, last_value, waited,
                          current_interval, w_obs, w_exit, w_since>>
         ELSE IF IndexingComplete(v.percentage)
         THEN /\ w_pc' = "returned"
              /\ w_exit' = "complete"
              /\ UNCHANGED <<last_percentage, last_value, waited, current_interval,
                             w_obs, w_since>>
         ELSE IF last_percentage = v.percentage /\ last_value = v
         THEN /\ waited' = waited + current_interval
              /\ w_obs' = elapsed' - w_since
              /\ IF StaleLimitReached(waited', current_interval, w_args.max_stale_time)
                 THEN /\ w_pc' = "returned"
                      /\ w_exit' = "stale"
                      /\ UNCHANGED <<last_percentage, last_value>>
                 ELSE /\ last_percentage' = v.percentage
                      /\ last_value' = v
                      /\ UNCHANGED <<w_pc, w_exit>>
              /\ UNCHANGED <<current_interval, w_since>>
         ELSE /\ waited' = 0
              /\ w_since' = elapsed'
              /\ current_interval' = w_args.interval
              /\ w_obs' = 0
              /\ last_percentage' = v.percentage
              /\ last_value' = v
              /\ UNCHANGED <<w_pc, w_exit>>
    /\ UNCHANGED w_args
    /\ UNCHANGED w_slept
    /\ UNCHANGED <<passVars, codecVars, pureVars, drainVars>>

\* The server's output stream has ended: select() reports it readable and
\* the header loop of _read_lsp_response reads empty chunks from then on.
WaitPollEof ==
    /\ w_pc = "poll"
    /\ w_pc' = "hung"
    /\ UNCHANGED <<w_args, last_percentage, last_value, waited, current_interval,
                   message_read, elapsed, w_obs, w_exit, w_left, w_since, w_msg>>
    /\ UNCHANGED w_slept
    /\ UNCHANGED <<passVars, codecVars, pureVars, drainVars>>

NextWait ==
    \/ WaitOuter
    \/ WaitPollEmpty
    \/ WaitPollBad
    \/ WaitPollOther
    \/ WaitPollProgress
    \/ WaitPollEof

SpecWait == InitWait /\ [][NextWait]_vars

\* The longest one step of the waiter may take: a sleep or a frame read.
WaitSlack == w_args.max_interval + 1

\* C9: the waiter always terminates: max_total_wait bounds its total wait
\* whatever frames the server sends and whenever; a waiter still polling has
\* not run longer than the ceiling plus its last step.
C9_TotalWaitBounded ==
    w_pc = "poll" => elapsed < w_args.max_total_wait + WaitSlack

\* C10: once the percentage has stayed unchanged for longer than
\* max_stale_time the waiter returns, and it returns on account of staleness.
C10_StaleExit ==
    w_obs > w_args.max_stale_time => (w_pc = "returned" /\ w_exit = "stale")

\* A step of the waiter that reads a backgroundIndexProgress frame whose
\* percentage is 100 ends in the returned state without a sleep, and a waiter
\* that has returned takes no further step.
C11_Step ==
    /\ (w_left' < w_left /\ w_msg'.percentage = 100)
          => /\ w_pc' = "returned"
             /\ w_exit' = "complete"
             /\ \E c \in ReadCosts : elapsed' = elapsed + c
    /\ w_pc = "returned" => UNCHANGED vars

\* A read of the waiter that takes a window/workDoneProgress/create
\* request from the stream writes the response to it.
C35_Step ==
    (w_left' < w_left /\ w_msg'.message = "create")
        => /\ Len(hist') = Len(hist) + 1
           /\ hist'[Len(hist')].ev = "send"
           /\ hist'[Len(hist')].what = "response"

\* C35: every window/workDoneProgress/create request the client reads is
\* answered, also when the frame is read with no awaited id, by the polling
\* loop of the IndexWaiter.
C35_CreateAnsweredByWaiter == [][C35_Step]_vars

\* A step of the waiter that reads a malformed frame raises out of the
\* waiter, which takes no further step.
C23_Step ==
    /\ (w_left' < w_left /\ w_msg'.message = "malformed") => w_pc' = "raised"
    /\ w_pc = "raised" => UNCHANGED vars

\* C23: a malformed or truncated frame is fatal for the read in which it
\* occurs and the error is surfaced to the caller of that read in every
\* reader, the polling loop of the IndexWaiter included: the reader does not
\* swallow the error and go on to read or poll again.
C23_MalformedFrameSurfaced == [][C23_Step]_vars

\* C11: on a $/progress frame with token backgroundIndexProgress and
\* percentage 100 the waiter returns immediately: it reads no further frame
\* and does not sleep afterwards.
C11_ReturnsAtHundred == [][C11_Step]_vars

\* The waiter has read such a frame after an earlier progress value.
C11_Witness ==
    /\ w_msg.percentage = 100
    /\ last_percentage = 10
    /\ w_pc = "returned"

\* A step in which the waiter sleeps: the poll has read no frame.
EmptyPollSleep ==
    /\ w_pc = "poll" /\ w_pc' = "outer"
    /\ ~message_read

\* C25, as stated: the interval slept after an empty poll is twice the
\* interval slept after the empty poll before it, capped at max_interval,
\* and the interval in use stays between the initial interval and
\* max_interval.
C25_NextEmptyPollDoubled ==
    /\ [](w_pc # "idle" =>
            /\ w_args.interval <= current_interval
            /\ current_interval <= w_args.max_interval)
    /\ [][(EmptyPollSleep /\ w_slept # NoId)
             => current_interval = Min(2 * w_slept, w_args.max_interval)]_vars

\* What a step does to the interval: a sleep after a poll in which no frame
\* was read doubles it up to max_interval, a progress frame whose value
\* differs from the last one sets it back to the initial interval, and
\* every other step leaves it alone.
C25_Step ==
    IF w_pc = "poll" /\ w_pc' = "outer" /\ ~message_read
    THEN /\ elapsed' >= elapsed + current_interval
         /\ current_interval' = Min(2 * current_interval, w_args.max_interval)
    ELSE IF /\ w_left' < w_left /\ w_pc' = "poll"
            /\ w_msg'.percentage \notin {NoId, 100}
            /\ w_msg' # last_value
    THEN current_interval' = w_args.interval
    ELSE current_interval' = current_interval

\* C25, as the code has it: the interval slept after a poll in which no
\* frame was read is doubled for the next sleep, capped at max_interval; a
\* progress frame with a changed value sets the interval back to the initial
\* one; the interval in use stays between the initial interval and
\* max_interval.
C25_BackoffDoubledOrReset ==
    /\ [](w_pc # "idle" =>
            /\ w_args.interval <= current_interval
            /\ current_interval <= w_args.max_interval)
    /\ [][C25_Step]_vars

\* The waiter has slept 1, 2 and 4 after three polls without a frame and
\* holds the capped interval.
C25_Witness ==
    /\ w_pc = "outer"
    /\ w_args.max_interval = 2 * MaxInterval
    /\ w_slept = 2 * MaxInterval
    /\ current_interval = w_args.max_interval
    /\ elapsed >= 1 + 2 + 2 * MaxInterval

(***************************************************************************)
(* The frame codec.  Bytes are one-character strings; a message is a JSON  *)
(* value: null, a non-negative integer, a string (sequence of characters), *)
(* an array, or an object (sequence of <<key, value>> members, in          *)
(* insertion order as in a Python dict).                                   *)
(***************************************************************************)
CR == "\r"
LF == "\n"
CRLF == <<CR, LF>>
HeaderTerminator == <<CR, LF, CR, LF>>

JNull == [t |-> "null", v |-> <<>>]
JInt(n) == [t |-> "int", v |-> n]
JStr(chars) == [t |-> "str", v |-> chars]
JArr(elems) == [t |-> "arr", v |-> elems]
JObj(members) == [t |-> "obj", v |-> members]

DigitChars == <<"0", "1", "2", "3", "4", "5", "6", "7", "8", "9">>
IsDigit(c) == \E d \in 1..10 : DigitChars[d] = c
DigitVal(c) == (CHOOSE d \in 1..10 : DigitChars[d] = c) - 1

\* str(n) for n >= 0.
RECURSIVE IntToStr(_)
IntToStr(n) ==
    IF n < 10 THEN <<DigitChars[n + 1]>>
    ELSE IntToStr(n \div 10) \o <<DigitChars[(n % 10) + 1]>>

\* The escapes json.dumps applies inside a string.
EscapeChar(c) ==
    CASE c = "\"" -> <<"\\", "\"">>
      [] c = "\\" -> <<"\\", "\\">>
      [] c = CR -> <<"\\", "r">>
      [] c = LF -> <<"\\", "n">>
      [] OTHER -> <<c>>

RECURSIVE EscapeString(_)
EscapeString(chars) ==
    IF chars = <<>> THEN <<>>
    ELSE EscapeChar(Head(chars)) \o EscapeString(Tail(chars))

QuotedString(chars) == <<"\"">> \o EscapeString(chars) \o <<"\"">>

\* json.dumps(msg) with the default separators ", " and ": ".
RECURSIVE Dumps(_), DumpsMembers(_), DumpsElems(_)
Dumps(j) ==
    CASE j.t = "null" -> <<"n", "u", "l", "l">>
      [] j.t = "int" -> IntToStr(j.v)
      [] j.t = "str" -> QuotedString(j.v)
      [] j.t = "arr" -> <<"[">> \o DumpsElems(j.v) \o <<"]">>
      [] j.t = "obj" -> <<"{">> \o DumpsMembers(j.v) \o <<"}">>

DumpsMembers(members) ==
    IF members = <<>> THEN <<>>
    ELSE QuotedString(Head(members)[1]) \o <<":", " ">> \o Dumps(Head(members)[2])
         \o (IF Len(members) > 1 THEN <<",", " ">> ELSE <<>>)
         \o DumpsMembers(Tail(members))

DumpsElems(elems) ==
    IF elems = <<>> THEN <<>>
    ELSE Dumps(Head(elems))
         \o (IF Len(elems) > 1 THEN <<",", " ">> ELSE <<>>)
         \o DumpsElems(Tail(elems))

ContentLengthPrefix ==
    <<"C", "o", "n", "t", "e", "n", "t", "-", "L", "e", "n", "g", "t", "h", ":", " ">>

\* _make_message_bytes: the header with the byte length of the body, the
\* blank line, the body.
\* A frame whose header counts one byte too few.
MakeMessageBytes_ShortLength(msg) ==
    LET msg_bytes == Dumps(msg) IN
    ContentLengthPrefix \o IntToStr(Len(msg_bytes) - 1) \o HeaderTerminator \o msg_bytes

MakeMessageBytes(msg) ==
    LET msg_bytes == Dumps(msg) IN
    ContentLengthPrefix \o IntToStr(Len(msg_bytes)) \o HeaderTerminator \o msg_bytes

(***************************************************************************)
(* json.loads: a recursive-descent parser over the bytes of the body.      *)
(* A parse yields [ok, v, i]: success, the value, the index after it.      *)
(***************************************************************************)
ParseFail == [ok |-> FALSE, v |-> JNull, i |-> 0]
ParseOk(val, next) == [ok |-> TRUE, v |-> val, i |-> next]

IsJsonSpace(c) == c \in {" ", "\t", CR, LF}

RECURSIVE SkipSpace(_, _)
SkipSpace(b, i) ==
    IF i <= Len(b) /\ IsJsonSpace(b[i]) THEN SkipSpace(b, i + 1) ELSE i

StartsAt(b, i, word) ==
    /\ i + Len(word) - 1 <= Len(b)
    /\ SubSeq(b, i, i + Len(word) - 1) = word

RECURSIVE ParseDigits(_, _, _)
ParseDigits(b, i, acc) ==
    IF i <= Len(b) /\ IsDigit(b[i])
    THEN ParseDigits(b, i + 1, acc * 10 + DigitVal(b[i]))
    ELSE ParseOk(JInt(acc), i)

\* A JSON number has no leading zero: after "0" the number is over.
ParseNumber(b, i) ==
    IF b[i] = "0" THEN ParseOk(JInt(0), i + 1) ELSE ParseDigits(b, i, 0)

RECURSIVE ParseStringBody(_, _, _)
ParseStringBody(b, i, acc) ==
    IF i > Len(b) THEN ParseFail
    ELSE IF b[i] = "\"" THEN ParseOk(JStr(acc), i + 1)
    ELSE IF b[i] = "\\"
         THEN IF i + 1 > Len(b) THEN ParseFail
              ELSE CASE b[i + 1] = "\"" -> ParseStringBody(b, i + 2, Append(acc, "\""))
                     [] b[i + 1] = "\\" -> ParseStringBody(b, i + 2, Append(acc, "\\"))
                     [] b[i + 1] = "r" -> ParseStringBody(b, i + 2, Append(acc, CR))
                     [] b[i + 1] = "n" -> ParseStringBody(b, i + 2, Append(acc, LF))
                     [] OTHER -> ParseFail
    ELSE IF b[i] \in {CR, LF} THEN ParseFail
    ELSE ParseStringBody(b, i + 1, Append(acc, b[i]))

ParseString(b, i) ==
    IF i <= Len(b) /\ b[i] = "\"" THEN ParseStringBody(b, i + 1, <<>>) ELSE ParseFail

RECURSIVE ParseValue(_, _), ParseMembers(_, _, _), ParseElems(_, _, _)
ParseValue(b, at) ==
    LET i == SkipSpace(b, at) IN
    IF i > Len(b) THEN ParseFail
    ELSE IF b[i] = "{" THEN
        (LET j == SkipSpace(b, i + 1) IN
         IF j <= Len(b) /\ b[j] = "}" THEN ParseOk(JObj(<<>>), j + 1)
         ELSE ParseMembers(b, j, <<>>))
    ELSE IF b[i] = "[" THEN
        (LET j == SkipSpace(b, i + 1) IN
         IF j <= Len(b) /\ b[j] = "]" THEN ParseOk(JArr(<<>>), j + 1)
         ELSE ParseElems(b, j, <<>>))
    ELSE IF b[i] = "\"" THEN ParseString(b, i)
    ELSE IF IsDigit(b[i]) THEN ParseNumber(b, i)
    ELSE IF StartsAt(b, i, <<"n", "u", "l", "l">>) THEN ParseOk(JNull, i + 4)
    ELSE ParseFail

\* The members of an object from index at on: "key": value, then "," or "}".
ParseMembers(b, at, acc) ==
    LET key == ParseString(b, SkipSpace(b, at)) IN
    IF ~key.ok THEN ParseFail
    ELSE LET c == SkipSpace(b, key.i) IN
         IF c > Len(b) \/ b[c] # ":" THEN ParseFail
         ELSE LET val == ParseValue(b, c + 1) IN
              IF ~val.ok THEN ParseFail
              ELSE LET e == SkipSpace(b, val.i)
                       members == Append(acc, <<key.v.v, val.v>>)
                   IN IF e > Len(b) THEN ParseFail
                      ELSE IF b[e] = "," THEN ParseMembers(b, e + 1, members)
                      ELSE IF b[e] = "}" THEN ParseOk(JObj(members), e + 1)
                      ELSE ParseFail

\* The elements of an array from index at on.
ParseElems(b, at, acc) ==
    LET val == ParseValue(b, at) IN
    IF ~val.ok THEN ParseFail
    ELSE LET e == SkipSpace(b, val.i)
             elems == Append(acc, val.v)
         IN IF e > Len(b) THEN ParseFail
            ELSE IF b[e] = "," THEN ParseElems(b, e + 1, elems)
            ELSE IF b[e] = "]" THEN ParseOk(JArr(elems), e + 1)
            ELSE ParseFail

\* json.loads(content): one value, then nothing but white space.
Loads(content) ==
    LET val == ParseValue(content, 1) IN
    IF val.ok /\ SkipSpace(content, val.i) > Len(content) THEN val ELSE ParseFail

(***************************************************************************)
(* Reading one frame: the header loop, the Content-Length, the body.       *)
(***************************************************************************)
\* `word in b`.
Contains(b, word) ==
    \E i \in 1..(Len(b) - Len(word) + 1) : SubSeq(b, i, i + Len(word) - 1) = word

FirstIndex(b, word) ==
    IF Contains(b, word)
    THEN CHOOSE i \in 1..(Len(b) - Len(word) + 1) :
            /\ SubSeq(b, i, i + Len(word) - 1) = word
            /\ \A k \in 1..(i - 1) : SubSeq(b, k, k + Len(word) - 1) # word
    ELSE 0

\* b.split(sep).
RECURSIVE Split(_, _)
Split(b, sep) ==
    LET i == FirstIndex(b, sep) IN
    IF i = 0 THEN <<b>>
    ELSE <<SubSeq(b, 1, i - 1)>> \o Split(SubSeq(b, i + Len(sep), Len(b)), sep)

LowerChar(c) ==
    LET UpperChars ==
            <<"A", "B", "C", "D", "E", "F", "G", "H", "I", "J", "K", "L", "M",
              "N", "O", "P", "Q", "R", "S", "T", "U", "V", "W", "X", "Y", "Z">>
        LowerChars ==
            <<"a", "b", "c", "d", "e", "f", "g", "h", "i", "j", "k", "l", "m",
              "n", "o", "p", "q", "r", "s", "t", "u", "v", "w", "x", "y", "z">>
    IN  IF \E k \in 1..26 : UpperChars[k] = c
        THEN LowerChars[CHOOSE k \in 1..26 : UpperChars[k] = c]
        ELSE c

\* A comparison of header lines that keeps their case.
Lower_KeepCase(b) == b

\* line.lower().
Lower(b) == [k \in 1..Len(b) |-> LowerChar(b[k])]

StartsWith(b, prefix) == Len(prefix) <= Len(b) /\ SubSeq(b, 1, Len(prefix)) = prefix

IsSpace(c) == c \in {" ", "\t", CR, LF, "\f"}

\* b.strip().
RECURSIVE Strip(_)
Strip(b) ==
    IF b = <<>> THEN b
    ELSE IF IsSpace(Head(b)) THEN Strip(Tail(b))
    ELSE IF IsSpace(b[Len(b)]) THEN Strip(SubSeq(b, 1, Len(b) - 1))
    ELSE b

\* int(b) of decimal digits; anything else is a ValueError here.
RECURSIVE DigitsValue(_, _)
DigitsValue(b, acc) ==
    IF b = <<>> THEN acc ELSE DigitsValue(Tail(b), acc * 10 + DigitVal(Head(b)))

ToInt(b) ==
    IF b # <<>> /\ \A k \in 1..Len(b) : IsDigit(b[k])
    THEN [ok |-> TRUE, n |-> DigitsValue(b, 0)]
    ELSE [ok |-> FALSE, n |-> 0]

\* The loop over headers.split(b"\r\n"): content_length starts at 0 and every
\* line that starts with content-length: (in any case) sets it.
RECURSIVE ScanHeaderLines(_, _)
ScanHeaderLines(lines, sofar) ==
    LET ContentLengthKey ==
            <<"c", "o", "n", "t", "e", "n", "t", "-", "l", "e", "n", "g", "t", "h", ":">>
    IN
    IF lines = <<>> \/ ~sofar.ok THEN sofar
    ELSE ScanHeaderLines(Tail(lines),
            IF StartsWith(Lower(Head(lines)), ContentLengthKey)
            THEN ToInt(Strip(Split(Head(lines), <<":">>)[2]))
            ELSE sofar)

ParseContentLength(header_bytes) ==
    ScanHeaderLines(Split(header_bytes, CRLF), [ok |-> TRUE, n |-> 0])

(***************************************************************************)
(* Messages the codec is exercised on.                                     *)
(***************************************************************************)
\* The keys (K_) and string values (S_) of the messages, as characters.
Lit ==
    [K_id |->
        <<"i", "d">>,
     K_jsonrpc |->
        <<"j", "s", "o", "n", "r", "p", "c">>,
     K_result |->
        <<"r", "e", "s", "u", "l", "t">>,
     K_method |->
        <<"m", "e", "t", "h", "o", "d">>,
     K_params |->
        <<"p", "a", "r", "a", "m", "s">>,
     K_uri |->
        <<"u", "r", "i">>,
     K_line |->
        <<"l", "i", "n", "e">>,
     K_character |->
        <<"c", "h", "a", "r", "a", "c", "t", "e", "r">>,
     K_textDocument |->
        <<"t", "e", "x", "t", "D", "o", "c", "u", "m", "e", "n", "t">>,
     K_position |->
        <<"p", "o", "s", "i", "t", "i", "o", "n">>,
     S_version |->
        <<"2", ".", "0">>,
     S_initialized |->
        <<"i", "n", "i", "t", "i", "a", "l", "i", "z", "e", "d">>,
     S_definition |->
        <<"t", "e", "x", "t", "D", "o", "c", "u", "m", "e", "n", "t", 
         "/", "d", "e", "f", "i", "n", "i", "t", "i", "o", "n">>,
     S_uri |->
        <<"f", "i", "l", "e", ":", "/", "/", "/", "k", "/", "a", ".", 
         "c">>,
     S_quoted |->
        <<"s", "a", "y", " ", "\"", "h", "i", "\"", "\\", "n", "o", "w">>,
     S_crlf |->
        <<"a", CR, LF, CR, LF, "b">>]

\* send_workDoneProgress_response's message.
MsgWorkDoneResponse ==
    JObj(<< <<Lit.K_id, JInt(0)>>, <<Lit.K_jsonrpc, JStr(Lit.S_version)>>, <<Lit.K_result, JNull>> >>)

\* _initialize_lsp's initialized notification.
MsgInitialized ==
    JObj(<< <<Lit.K_jsonrpc, JStr(Lit.S_version)>>, <<Lit.K_method, JStr(Lit.S_initialized)>>,
            <<Lit.K_params, JObj(<<>>)>> >>)

\* _find_definition's request.
MsgDefinition ==
    JObj(<< <<Lit.K_jsonrpc, JStr(Lit.S_version)>>, <<Lit.K_method, JStr(Lit.S_definition)>>,
            <<Lit.K_params,
              JObj(<< <<Lit.K_textDocument, JObj(<< <<Lit.K_uri, JStr(Lit.S_uri)>> >>)>>,
                      <<Lit.K_position,
                        JObj(<< <<Lit.K_line, JInt(41)>>, <<Lit.K_character, JInt(8)>> >>)>> >>)>>,
            <<Lit.K_id, JInt(2)>> >>)

\* A response with an array result, and strings that need escaping.
MsgResponse ==
    JObj(<< <<Lit.K_id, JInt(100)>>,
            <<Lit.K_result,
              JArr(<< JObj(<< <<Lit.K_uri, JStr(Lit.S_quoted)>>, <<Lit.K_line, JInt(7)>> >>),
                      JArr(<<>>), JStr(Lit.S_crlf) >>)>> >>)

Messages == {JObj(<<>>), MsgWorkDoneResponse, MsgInitialized, MsgDefinition, MsgResponse}

\* The server has written the first `cut` bytes of the frame of one message
\* and then its output stream has ended.
InitCodec ==
    /\ c_msg \in Messages
    /\ \E cut \in 0..Len(MakeMessageBytes(c_msg)) :
         /\ wire = SubSeq(MakeMessageBytes(c_msg), 1, cut)
         /\ complete = (cut = Len(MakeMessageBytes(c_msg)))
    /\ closed = TRUE
    /\ c_pc = "header"
    /\ headers = <<>>
    /\ content_length = 0
    /\ decoded = JNull
    /\ spins = 0
    /\ c_frames = <<>>
    /\ c_reads = <<>>
    /\ IdlePass /\ IdleWait /\ IdlePure /\ IdleDrain

\* The header loop: chunk = proc.stdout.read(1); headers += chunk.
ReadHeaderByte ==
    /\ c_pc = "header"
    /\ ~Contains(headers, HeaderTerminator)
    /\ wire # <<>>
    /\ headers' = Append(headers, Head(wire))
    /\ wire' = Tail(wire)
    /\ UNCHANGED <<c_pc, c_msg, complete, closed, content_length, decoded, spins,
                   c_frames, c_reads>>
    /\ UNCHANGED <<passVars, waitVars, pureVars, drainVars>>

\* The header loop at end-of-stream: read(1) returns b"", which is not None;
\* headers is unchanged and the loop goes round again.
ReadHeaderEof ==
    /\ c_pc = "header"
    /\ ~Contains(headers, HeaderTerminator)
    /\ wire = <<>>
    /\ closed
    /\ spins < MaxSpins
    /\ spins' = spins + 1
    /\ UNCHANGED <<c_pc, c_msg, complete, wire, closed, headers, content_length,
                   decoded, c_frames, c_reads>>
    /\ UNCHANGED <<passVars, waitVars, pureVars, drainVars>>

\* After the header loop: the Content-Length is parsed, read(content_length)
\* returns that many bytes (fewer at end-of-stream), json.loads parses them
\* and, expected_id being None, the message is returned.
ReadContent ==
    /\ c_pc = "header"
    /\ Contains(headers, HeaderTerminator)
    /\ LET length == ParseContentLength(headers) IN
       IF ~length.ok
       THEN /\ c_pc' = "raised"
            /\ UNCHANGED <<wire, content_length, decoded, c_reads>>
       ELSE /\ Len(wire) >= length.n \/ closed
            /\ content_length' = length.n
            /\ LET got == Min(length.n, Len(wire))
                   msg == Loads(SubSeq(wire, 1, got))
               IN /\ wire' = SubSeq(wire, got + 1, Len(wire))
                  /\ IF msg.ok
                     THEN /\ c_pc' = "returned"
                          /\ decoded' = msg.v
                          /\ c_reads' = Append(c_reads, msg.v)
                     ELSE c_pc' = "raised" /\ UNCHANGED <<decoded, c_reads>>
    /\ UNCHANGED <<c_msg, complete, closed, headers, spins, c_frames>>
    /\ UNCHANGED <<passVars, waitVars, pureVars, drainVars>>

NextCodec == ReadHeaderByte \/ ReadHeaderEof \/ ReadContent

SpecCodec == InitCodec /\ [][NextCodec]_vars

(***************************************************************************)
(* Successive frame reads on a stream that holds several frames.           *)
(***************************************************************************)
\* The frame a server writes for msg: the header as the client writes it
\* ("plain"), or with the field name in lower case and a Content-Type field
\* after it ("typed").
ServerFrame(msg, style) ==
    IF style = "plain" THEN MakeMessageBytes(msg)
    ELSE <<"c", "o", "n", "t", "e", "n", "t", "-", "l", "e", "n", "g", "t", "h", ":", " ">>
         \o IntToStr(Len(Dumps(msg))) \o CRLF
         \o <<"C", "o", "n", "t", "e", "n", "t", "-", "T", "y", "p", "e", ":", " ", "x">>
         \o HeaderTerminator \o Dumps(msg)

\* The bytes of a sequence of frames.
RECURSIVE StreamOf(_)
StreamOf(frames) ==
    IF frames = <<>> THEN <<>>
    ELSE ServerFrame(Head(frames).msg, Head(frames).style) \o StreamOf(Tail(frames))

\* The server has written two whole frames and its output is still open.
InitStream ==
    /\ c_frames \in [1..2 -> [msg : Messages, style : {"plain", "typed"}]]
    /\ wire = StreamOf(c_frames)
    /\ c_msg = c_frames[1].msg
    /\ complete = TRUE
    /\ closed = FALSE
    /\ c_pc = "header"
    /\ headers = <<>>
    /\ content_length = 0
    /\ decoded = JNull
    /\ spins = 0
    /\ c_reads = <<>>
    /\ IdlePass /\ IdleWait /\ IdlePure /\ IdleDrain

\* The next frame read (the next call of _read_lsp_response, or the next
\* round of its loop): headers = b"" and content_length = 0.
ReadNextFrame ==
    /\ c_pc = "returned"
    /\ c_pc' = "header"
    /\ headers' = <<>>
    /\ content_length' = 0
    /\ UNCHANGED <<c_msg, complete, wire, closed, decoded, spins, c_frames, c_reads>>
    /\ UNCHANGED <<passVars, waitVars, pureVars, drainVars>>

NextStream == ReadHeaderByte \/ ReadContent \/ ReadNextFrame

SpecStream == InitStream /\ [][NextStream]_vars

\* C38: frame boundaries are preserved: on a stream of well-formed frames no
\* read fails, the reads return the messages of the frames in order, and a
\* read that has returned has consumed the bytes of one frame, its header
\* up to the first blank line and Content-Length body bytes: what is left on
\* the stream is the frames not read yet.
C38_FrameBoundaries ==
    /\ c_pc # "raised"
    /\ Len(c_reads) <= Len(c_frames)
    /\ \A k \in 1..Len(c_reads) : c_reads[k] = c_frames[k].msg
    /\ c_pc = "returned" =>
          LET k == Len(c_reads) IN
          /\ wire = StreamOf(SubSeq(c_frames, k + 1, Len(c_frames)))
          /\ content_length = Len(Dumps(c_frames[k].msg))
          /\ headers \o Dumps(c_frames[k].msg)
                = ServerFrame(c_frames[k].msg, c_frames[k].style)

\* Two different frames, one of each header style, have been read and the
\* stream is used up.
C38_Witness ==
    /\ c_pc = "returned"
    /\ c_frames = <<[msg |-> MsgResponse, style |-> "typed"],
                    [msg |-> MsgDefinition, style |-> "plain"]>>
    /\ c_reads = <<MsgResponse, MsgDefinition>>
    /\ wire = <<>>

\* C7: when the stream ends before the header terminator or before the whole
\* body has been read, the frame read fails with an error: once it has met
\* the end of the stream it neither goes on reading nor returns a message.
C7_TruncatedStreamRaises ==
    (~complete /\ wire = <<>> /\ (spins > 0 \/ c_pc # "header")) => c_pc = "raised"

\* C8: the frame of message m is one header field Content-Length: <n>, the
\* blank line and n body bytes, n the byte length of the body, and reading
\* it back returns a message equal to m.
C8_FrameRoundTrip ==
    complete =>
        /\ spins = 0
        /\ c_pc \in {"returned", "raised"} =>
              /\ c_pc = "returned"
              /\ decoded = c_msg
              /\ wire = <<>>
              /\ content_length = Len(Dumps(c_msg))
              /\ Split(headers, CRLF)
                    = <<ContentLengthPrefix \o IntToStr(content_length), <<>>, <<>>>>

\* A whole frame with a three-digit Content-Length, nested objects and an
\* array has been read back.
C8_Witness ==
    /\ complete
    /\ c_pc = "returned"
    /\ c_msg = MsgDefinition
    /\ content_length >= 100

(***************************************************************************)
(* parse_diff: the added lines of a unified diff.                          *)
(***************************************************************************)
\* The items a diff is built from: the header of file a.c or b.c, a hunk
\* header with new start line 1 or 5, a context line, an added line, an
\* added line whose content starts with ++, a removed line, and the marker
\* "\ No newline at end of file".
DiffItems == {"Fa", "Fb", "H1", "H5", "ctx", "add", "addpp", "del", "marker"}

IsOp(t) == t \in {"ctx", "add", "addpp", "del", "marker"}

Last(d) == d[Len(d)]

\* The items of d since its last file header.
RECURSIVE InFile(_)
InFile(d) ==
    IF d = <<>> \/ Last(d) \in {"Fa", "Fb"} THEN <<>>
    ELSE Append(InFile(SubSeq(d, 1, Len(d) - 1)), Last(d))

Has(d, t) == \E k \in 1..Len(d) : d[k] = t

\* After which item the marker of the current file stands, if it has one.
MarkerAfter(d) ==
    LET f == InFile(d) IN
    IF \E k \in 2..Len(f) : f[k] = "marker" /\ f[k - 1] # "del"
    THEN "new"
    ELSE IF Has(f, "marker") THEN "old" ELSE "none"

\* Whether item t may follow d in a well-formed diff: a file header opens
\* the diff and follows a hunk line; a hunk header follows a file header or
\* a hunk line, hunks of a file in increasing order; the marker follows the
\* last line of the old file (only added lines come after it) or of the new
\* file (nothing of this file comes after it).
CanFollow(d, t) ==
    CASE t = "Fa" -> d = <<>>
      [] t = "Fb" -> d # <<>> /\ IsOp(Last(d)) /\ ~Has(d, "Fb")
      [] t = "H1" -> d # <<>> /\ Last(d) \in {"Fa", "Fb"}
      [] t = "H5" -> /\ d # <<>>
                     /\ Last(d) \in {"Fa", "Fb"} \/ IsOp(Last(d))
                     /\ ~Has(InFile(d), "H5")
                     /\ MarkerAfter(d) = "none"
      [] t = "marker" -> /\ d # <<>>
                         /\ Last(d) \in {"ctx", "add", "addpp", "del"}
                         /\ MarkerAfter(d) = "none"
                            \/ (MarkerAfter(d) = "old" /\ Last(d) \in {"add", "addpp"})
      [] OTHER -> /\ d # <<>>
                  /\ Last(d) \in {"H1", "H5"} \/ IsOp(Last(d))
                  /\ \/ MarkerAfter(d) = "none"
                     \/ MarkerAfter(d) = "old" /\ t \in {"add", "addpp"}
                                               /\ Last(d) \in {"marker", "add", "addpp"}

RECURSIVE DiffsUpTo(_)
DiffsUpTo(n) ==
    IF n = 0 THEN {<<>>}
    ELSE LET P == DiffsUpTo(n - 1) IN
         P \cup {Append(x[1], x[2]) :
                    x \in {y \in P \X DiffItems : CanFollow(y[1], y[2])}}

\* Whole diffs: the last item is a hunk line.
WellFormedDiffs == {d \in DiffsUpTo(MaxDiffItems) : d # <<>> /\ IsOp(Last(d))}

\* The path of the file whose header item t is.
DiffFile(t) == IF t = "Fa" THEN <<"a", ".", "c">> ELSE <<"b", ".", "c">>

\* The lines of the diff, as git writes them.
RECURSIVE DiffText(_)
DiffText(d) ==
    IF d = <<>> THEN <<>>
    ELSE LET t == Head(d)
             OldHeader == <<"-", "-", "-", " ", "a", "/">> \o DiffFile(t)
             NewHeader == <<"+", "+", "+", " ", "b", "/">> \o DiffFile(t)
             HunkHeader(start) ==
                 <<"@", "@", " ", "-">> \o IntToStr(start) \o <<",", "3", " ", "+">>
                     \o IntToStr(start) \o <<",", "4", " ", "@", "@">>
             NoNewlineMarker ==
                 <<"\\", " ", "N", "o", " ", "n", "e", "w", "l", "i", 
                 "n", "e", " ", "a", "t", " ", "e", "n", "d", " ", "o", 
                 "f", " ", "f", "i", "l", "e">>
         IN
         (CASE t \in {"Fa", "Fb"} -> <<OldHeader, NewHeader>>
            [] t = "H1" -> <<HunkHeader(1)>>
            [] t = "H5" -> <<HunkHeader(5)>>
            [] t = "ctx" -> << <<" ", "\t", "x", ";">> >>
            [] t = "add" -> << <<"+", "\t", "y", ";">> >>
            [] t = "addpp" -> << <<"+", "+", "+", "i", ";">> >>
            [] t = "del" -> << <<"-", "\t", "z", ";">> >>
            [] t = "marker" -> <<NoNewlineMarker>>)
         \o DiffText(Tail(d))

\* The index after the digits of b that start at i.
RECURSIVE DigitsEnd(_, _)
DigitsEnd(b, i) ==
    IF i <= Len(b) /\ IsDigit(b[i]) THEN DigitsEnd(b, i + 1) ELSE i

\* The index after an optional (,\d+) at i.
OptCount(b, i) ==
    IF i <= Len(b) /\ b[i] = "," /\ DigitsEnd(b, i + 1) > i + 1
    THEN DigitsEnd(b, i + 1) ELSE i

\* re.match(r'@@ -\d+(,\d+)? \+(\d+)(,\d+)? @@', line): whether it matches,
\* and int(match.group(2)).
HunkMatch(line) ==
    LET a == DigitsEnd(line, 5)
        b == OptCount(line, a)
        c == DigitsEnd(line, b + 2)
        e == OptCount(line, c)
    IN IF /\ StartsWith(line, <<"@", "@", " ", "-">>)
          /\ a > 5
          /\ SubSeq(line, b, b + 1) = <<" ", "+">>
          /\ c > b + 2
          /\ SubSeq(line, e, e + 2) = <<" ", "@", "@">>
       THEN [ok |-> TRUE, n |-> DigitsValue(SubSeq(line, b + 2, c - 1), 0)]
       ELSE [ok |-> FALSE, n |-> 0]

InitDiff ==
    /\ d_pc = "loop"
    /\ diff \in WellFormedDiffs
    /\ diff_lines = DiffText(diff)
    /\ d_i = 1
    /\ file_adds = [name \in {} |-> {}]
    /\ current_file = None
    /\ new_line = None
    /\ IdlePass /\ IdleCodec /\ IdleWait /\ IdleTree /\ IdleCtx /\ IdleDrain

\* file_adds[key] = value.
SetItem(dict, key, value) ==
    [k \in DOMAIN dict \cup {key} |-> IF k = key THEN value ELSE dict[k]]

\* One iteration of `for line in diff_lines`.
ParseDiffLine ==
    /\ d_pc = "loop"
    /\ d_i <= Len(diff_lines)
    /\ LET line == diff_lines[d_i] IN
       IF StartsWith(line, <<"+", "+", "+", " ", "b", "/">>)
       THEN /\ current_file' = Some(Strip(SubSeq(line, 7, Len(line))))
            /\ file_adds' = SetItem(file_adds, current_file'.v, {})
            /\ UNCHANGED new_line
       ELSE IF StartsWith(line, <<"@", "@">>)
       THEN /\ new_line' = IF HunkMatch(line).ok
                           THEN Some(HunkMatch(line).n - 1) ELSE new_line
            /\ UNCHANGED <<current_file, file_adds>>
       ELSE IF /\ StartsWith(line, <<"+">>) /\ ~StartsWith(line, <<"+", "+", "+">>)
               /\ current_file.some /\ new_line.some
       THEN /\ file_adds' = SetItem(file_adds, current_file.v,
                                    file_adds[current_file.v] \cup {new_line.v})
            /\ new_line' = Some(new_line.v + 1)
            /\ UNCHANGED current_file
       ELSE IF /\ ~StartsWith(line, <<"-">>) /\ ~StartsWith(line, <<"-", "-", "-">>)
               /\ ~StartsWith(line, <<"+", "+", "+">>) /\ new_line.some
       THEN /\ new_line' = Some(new_line.v + 1)
            /\ UNCHANGED <<current_file, file_adds>>
       ELSE UNCHANGED <<current_file, file_adds, new_line>>
    /\ d_i' = d_i + 1
    /\ UNCHANGED <<d_pc, diff, diff_lines>>
    /\ UNCHANGED <<passVars, codecVars, waitVars, treeVars, ctxVars, drainVars>>

\* `return file_adds`.
ParseDiffReturn ==
    /\ d_pc = "loop"
    /\ d_i > Len(diff_lines)
    /\ d_pc' = "done"
    /\ UNCHANGED <<diff, diff_lines, d_i, file_adds, current_file, new_line>>
    /\ UNCHANGED <<passVars, codecVars, waitVars, treeVars, ctxVars, drainVars>>

NextDiff == ParseDiffLine \/ ParseDiffReturn

SpecDiff == InitDiff /\ [][NextDiff]_vars

\* The additions of a diff, from the items it was built from: under each
\* file, the 0-based positions its added lines have in the new version.
RECURSIVE AddedLines(_, _, _, _)
AddedLines(d, name, pos, acc) ==
    IF d = <<>> THEN acc
    ELSE LET t == Head(d) IN
         CASE t \in {"Fa", "Fb"} ->
                AddedLines(Tail(d), DiffFile(t), 0, SetItem(acc, DiffFile(t), {}))
           [] t = "H1" -> AddedLines(Tail(d), name, 0, acc)
           [] t = "H5" -> AddedLines(Tail(d), name, 4, acc)
           [] t = "ctx" -> AddedLines(Tail(d), name, pos + 1, acc)
           [] t \in {"add", "addpp"} ->
                AddedLines(Tail(d), name, pos + 1,
                           SetItem(acc, name, acc[name] \cup {pos}))
           [] OTHER -> AddedLines(Tail(d), name, pos, acc)

\* C12: for every well-formed unified diff, the line numbers parse_diff
\* records for a file are exactly the 0-based positions of the file's added
\* lines in its new version.
C12_AddedLinesExact ==
    d_pc = "done" => file_adds = AddedLines(diff, <<>>, 0, [name \in {} |-> {}])

\* The kind of every line of DiffText(d): the item the line was written
\* for, the two lines of a file header told apart.
RECURSIVE LineKinds(_)
LineKinds(d) ==
    IF d = <<>> THEN <<>>
    ELSE (IF Head(d) \in {"Fa", "Fb"} THEN <<"old_header", "new_header">>
          ELSE <<Head(d)>>) \o LineKinds(Tail(d))

\* One iteration of the loop, by the kind of the line it reads.
C26_Step ==
    (d_pc = "loop" /\ d_i <= Len(diff_lines) /\ d_i' = d_i + 1) =>
        LET kind == LineKinds(diff)[d_i] IN
        CASE kind = "del" -> new_line' = new_line /\ file_adds' = file_adds
          [] kind = "ctx" -> /\ new_line.some
                             /\ new_line' = Some(new_line.v + 1)
                             /\ file_adds' = file_adds
          [] kind \in {"add", "addpp"} ->
                /\ new_line.some /\ current_file.some
                /\ file_adds' = SetItem(file_adds, current_file.v,
                                        file_adds[current_file.v] \cup {new_line.v})
                /\ new_line' = Some(new_line.v + 1)
          [] kind = "H1" -> new_line' = Some(1 - 1) /\ file_adds' = file_adds
          [] kind = "H5" -> new_line' = Some(5 - 1) /\ file_adds' = file_adds
          [] OTHER -> TRUE

\* C26: a removed line leaves the cursor and every addition set unchanged; a
\* context line advances the cursor by one and records nothing; an added
\* line records the cursor in the current file's set and then advances it
\* by one; a hunk header sets the cursor to the new-side start line minus
\* one.
C26_CursorRules == [][C26_Step]_vars

(***************************************************************************)
(* _find_symbol_and_parent: the symbol of an identifier in a symbol tree.  *)
(***************************************************************************)
\* Symbol nodes with range lo..hi at one level of the tree, each with no
\* child or one child whose range lies inside.
RECURSIVE NodesAt(_, _, _)
NodesAt(level, lo, hi) ==
    {[name |-> n, start |-> lo, end |-> hi, children |-> c] :
        n \in Names,
        c \in {<<>>} \cup (IF level = MaxTreeDepth THEN {}
                           ELSE {<<k>> : k \in NodesAt(level + 1, lo + 1, hi - 1)})}

\* documentSymbol results: one or two top-level symbols.
SymbolTrees ==
    {<<x>> : x \in NodesAt(1, 0, 9)}
    \cup {<<x, y>> : x \in NodesAt(1, 0, 9), y \in NodesAt(1, 10, 19)}

\* The test of helper() on one node.
NodeMatches(node, identifier, line) ==
    node.name = identifier /\ node.start <= line /\ line <= node.end

\* helper(nodes, parent): the nodes in order, each before its children.
RECURSIVE Helper(_, _, _, _)
Helper(nodes, parent, identifier, line) ==
    IF nodes = <<>> THEN None
    ELSE LET node == Head(nodes)
             found == Helper(node.children, Some(node), identifier, line)
         IN IF NodeMatches(node, identifier, line)
            THEN Some([node |-> node, parent |-> parent])
            ELSE IF found.some THEN found
            ELSE Helper(Tail(nodes), parent, identifier, line)

InitTree ==
    /\ t_pc = "call"
    /\ t_symbols \in SymbolTrees
    /\ t_identifier \in Names
    /\ t_line \in {0, 2, 5, 12, 25}
    /\ t_found = None
    /\ def_symbol = None
    /\ IdlePass /\ IdleCodec /\ IdleWait /\ IdleDiff /\ IdleCtx /\ IdleDrain

\* The call _find_symbol_and_parent(symbols, identifier, line).
FindSymbolAndParent ==
    /\ t_pc = "call"
    /\ t_found' = Helper(t_symbols, None, t_identifier, t_line)
    /\ t_pc' = "done"
    /\ UNCHANGED <<t_symbols, t_identifier, t_line, def_symbol>>
    /\ UNCHANGED <<passVars, codecVars, waitVars, diffVars, ctxVars, drainVars>>

\* `for sym in symbol_resp["result"]: if sym.get("name") == identifier:
\* return sym`, and None after the loop.
RECURSIVE FirstNamed(_, _)
FirstNamed(result, identifier) ==
    IF result = <<>> THEN None
    ELSE IF Head(result).name = identifier THEN Some(Head(result))
    ELSE FirstNamed(Tail(result), identifier)

\* The call _get_document_symbols(proc, loc["uri"], header_contents, ident)
\* for a definition at line t_line, once the documentSymbol response of the
\* defining file is in.
GetDocumentSymbols ==
    /\ t_pc = "call"
    /\ def_symbol' = FirstNamed(t_symbols, t_identifier)
    /\ t_pc' = "chosen"
    /\ UNCHANGED <<t_symbols, t_identifier, t_line, t_found>>
    /\ UNCHANGED <<passVars, codecVars, waitVars, diffVars, ctxVars, drainVars>>

NextTree == FindSymbolAndParent \/ GetDocumentSymbols

SpecTree == InitTree /\ [][NextTree]_vars

\* Every node of the tree that matches, with its direct parent and depth.
RECURSIVE MatchesIn(_, _, _, _, _)
MatchesIn(nodes, parent, depth, identifier, line) ==
    IF nodes = <<>> THEN {}
    ELSE LET node == Head(nodes) IN
         (IF NodeMatches(node, identifier, line)
          THEN {[node |-> node, parent |-> parent, depth |-> depth]} ELSE {})
         \cup MatchesIn(node.children, Some(node), depth + 1, identifier, line)
         \cup MatchesIn(Tail(nodes), parent, depth, identifier, line)

\* C14: _find_symbol_and_parent returns the deepest node whose name is the
\* identifier and whose range contains the line, with that node's direct
\* parent; never an ancestor when a descendant of it matches as well.
C14_DeepestMatch ==
    t_pc = "done" =>
        LET all == MatchesIn(t_symbols, None, 0, t_identifier, t_line) IN
        /\ t_found.some <=> all # {}
        /\ t_found.some =>
              \E m \in all :
                 /\ m.node = t_found.v.node
                 /\ m.parent = t_found.v.parent
                 /\ \A other \in all : other.depth <= m.depth

\* C27: the symbol chosen in the defining file for an identifier is a node
\* of the file's symbol tree, found by depth-first search, whose name is the
\* identifier and whose range contains the definition line; a symbol of
\* that name that does not contain the definition line is never chosen.
C27_ChosenSymbolContainsLine ==
    (t_pc = "chosen" /\ def_symbol.some) =>
            \E m \in MatchesIn(t_symbols, None, 0, t_identifier, t_line) :
                m.node = def_symbol.v

(***************************************************************************)
(* _fill_context_gaps and _format_file_context: the excerpt of one file.   *)
(***************************************************************************)
\* Essential line sets: the non-empty subsets of a few lines with gaps of 0,
\* 3, 4, 5, 6 and 33 lines between them.
EssentialSets == (SUBSET {2, 6, 10, 11, 15, 16, 22, 50}) \ {{}}

\* sorted(essential_lines).
RECURSIVE Sorted(_)
Sorted(S) ==
    IF S = {} THEN <<>>
    ELSE LET m == CHOOSE x \in S : \A y \in S : x <= y
         IN <<m>> \o Sorted(S \ {m})

\* The loop of _fill_context_gaps over sorted_lines from index i on.
RECURSIVE FillLoop(_, _, _)
FillLoop(sorted_lines, i, lines_so_far) ==
    IF i > Len(sorted_lines) - 1 THEN lines_so_far
    ELSE LET current_line == sorted_lines[i]
             next_line == sorted_lines[i + 1]
             gap_size == next_line - current_line - 1
         IN FillLoop(sorted_lines, i + 1,
                     IF 0 < gap_size /\ gap_size <= MAX_GAP
                     THEN lines_so_far \cup ((current_line + 1)..(next_line - 1))
                     ELSE lines_so_far)

\* A fill that adds only the first line of each small gap.
FillContextGaps_FirstLine(S) ==
    S \cup {x + 1 : x \in {y \in S : y + 1 \notin S /\ \E z \in S : z > y /\ z - y - 1 <= MAX_GAP}}

\* A fill that ignores the length of a gap: every line from the first to
\* the last essential line.
FillContextGaps_WholeSpan(S) ==
    {x \in 0..60 : \E lo, hi \in S : lo <= x /\ x <= hi}

FillContextGaps(S) ==
    IF S = {} THEN S ELSE FillLoop(Sorted(S), 1, S)

\* Line k (0-based) of the file.
FileLine(k) == <<"l">> \o IntToStr(k) \o <<LF>>

\* A marker that names the skipped lines by their 0-based numbers.
SkipMarker_ZeroBased(gap_start, gap_len) ==
    <<"/", "/", " ", "s", "k", "i", "p", "p", "i", "n", "g", " ",
      "l", "i", "n", "e", "s", " ">>
        \o IntToStr(gap_start) \o <<"-">> \o IntToStr(gap_start + gap_len - 1) \o <<LF>>

\* A marker whose end is the line after the run.
SkipMarker_EndExclusive(gap_start, gap_len) ==
    <<"/", "/", " ", "s", "k", "i", "p", "p", "i", "n", "g", " ",
      "l", "i", "n", "e", "s", " ">>
        \o IntToStr(gap_start + 1) \o <<"-">> \o IntToStr(gap_start + gap_len + 1) \o <<LF>>

\* f"// skipping lines {start_line}-{end_line}\n".
SkipMarker(gap_start, gap_len) ==
    <<"/", "/", " ", "s", "k", "i", "p", "p", "i", "n", "g", " ",
      "l", "i", "n", "e", "s", " ">>
        \o IntToStr(gap_start + 1) \o <<"-">> \o IntToStr(gap_start + gap_len) \o <<LF>>

\* The first index from i on at which membership in lines differs from
\* `inside`, or n: the inner while loops of _format_file_context.
RECURSIVE RunEnd(_, _, _, _)
RunEnd(i, n, lines, inside) ==
    IF i < n /\ ((i \in lines) <=> inside) THEN RunEnd(i + 1, n, lines, inside) ELSE i

\* The walk `while i < n_lines` of _format_file_context.
RECURSIVE FormatWalk(_, _, _, _)
FormatWalk(i, n, lines, context) ==
    IF i >= n THEN context
    ELSE IF i \in lines
    THEN LET region_end == RunEnd(i, n, lines, TRUE) IN
         FormatWalk(region_end, n, lines,
                    context \o [k \in 1..(region_end - i) |-> FileLine(i + k - 1)])
    ELSE LET gap_len == RunEnd(i, n, lines, FALSE) - i IN
         FormatWalk(i + gap_len, n, lines,
                    IF gap_len > MAX_GAP
                    THEN Append(context, SkipMarker(i, gap_len)) ELSE context)

InitCtx ==
    /\ g_pc = "fill"
    /\ essential_lines \in EssentialSets
    /\ n_lines \in {0, 12, 53, 60}
    /\ print_lines = {}
    /\ refilled = {}
    /\ file_context = <<>>
    /\ IdlePass /\ IdleCodec /\ IdleWait /\ IdleDiff /\ IdleTree /\ IdleDrain

\* print_lines = self._fill_context_gaps(essential_lines).
FillGaps ==
    /\ g_pc = "fill"
    /\ print_lines' = FillContextGaps(essential_lines)
    /\ g_pc' = "filled"
    /\ UNCHANGED <<essential_lines, n_lines, refilled, file_context>>
    /\ UNCHANGED <<passVars, codecVars, waitVars, diffVars, treeVars, drainVars>>

\* The fill applied to its own output.
FillGapsAgain ==
    /\ g_pc = "filled"
    /\ refilled' = FillContextGaps(print_lines)
    /\ g_pc' = "refilled"
    /\ UNCHANGED <<essential_lines, n_lines, print_lines, file_context>>
    /\ UNCHANGED <<passVars, codecVars, waitVars, diffVars, treeVars, drainVars>>

\* file_context = self._format_file_context(def_file, print_lines).
FormatFileContext ==
    /\ g_pc = "filled"
    /\ file_context' = FormatWalk(0, n_lines, print_lines, <<>>)
    /\ g_pc' = "done"
    /\ UNCHANGED <<essential_lines, n_lines, print_lines, refilled>>
    /\ UNCHANGED <<passVars, codecVars, waitVars, diffVars, treeVars, drainVars>>

NextCtx == FillGaps \/ FillGapsAgain \/ FormatFileContext

SpecContext == InitCtx /\ [][NextCtx]_vars

\* C18: gap-filling is idempotent: the fill of a filled set is that set.
C18_FillIdempotent == g_pc = "refilled" => refilled = print_lines

\* A set with a gap of three lines has been filled, and filled again.
C18_Witness ==
    /\ g_pc = "refilled"
    /\ essential_lines = {10, 11, 15, 16}
    /\ print_lines = 10..16

\* The text of a marker for the lines first..last.
MarkerText(first, last) ==
    <<"/", "/", " ", "s", "k", "i", "p", "p", "i", "n", "g", " ",
      "l", "i", "n", "e", "s", " ">>
        \o IntToStr(first) \o <<"-">> \o IntToStr(last) \o <<LF>>

\* The markers of the rendered context, in order.
Markers == SelectSeq(file_context, LAMBDA item : Head(item) = "/")

\* C19, as stated: essential lines {10,50} are not filled, and the rendering
\* emits a single marker, which reads // skipping lines 11-49.
C19_SingleMarker11To49 ==
    (g_pc = "done" /\ essential_lines = {10, 50} /\ n_lines > 50)
        => /\ print_lines = {10, 50}
           /\ Markers = <<MarkerText(11, 49)>>

\* C19, as the code has it: essential lines {10,50} (0-based) are not
\* filled; every gap longer than MAX_GAP between two adjacent printed lines
\* a < b is rendered as exactly one marker, between the two lines, that
\* names the skipped lines by their 1-based numbers a+2 .. b (12-50 for
\* {10,50}); a long run before the first printed line has its own marker.
C19_GapMarkerOneBased ==
    g_pc = "done" =>
        /\ essential_lines = {10, 50} => print_lines = {10, 50}
        /\ \A a, b \in print_lines :
              (/\ a < b /\ b < n_lines /\ b - a - 1 > MAX_GAP
               /\ \A x \in print_lines : ~(a < x /\ x < b))
              => /\ Cardinality({p \in 1..Len(file_context) :
                                    file_context[p] = MarkerText(a + 2, b)}) = 1
                 /\ \E p \in 2..(Len(file_context) - 1) :
                       /\ file_context[p - 1] = FileLine(a)
                       /\ file_context[p] = MarkerText(a + 2, b)
                       /\ file_context[p + 1] = FileLine(b)
        /\ (essential_lines = {10, 50} /\ n_lines > 50)
              => /\ Markers[1] = MarkerText(1, 10)
                 /\ Markers[2] = MarkerText(12, 50)

\* The file with essential lines {10,50} has been rendered.
C19_Witness ==
    /\ g_pc = "done"
    /\ essential_lines = {10, 50}
    /\ n_lines = 53
    /\ Len(Markers) = 2

\* The first line of the run of lines outside print_lines that holds line k.
RunStart(k) ==
    CHOOSE i \in 0..k :
        /\ \A j \in i..k : j \notin print_lines
        /\ i = 0 \/ (i - 1) \in print_lines

\* C20: no run of 1 to MAX_GAP non-essential lines reaches the rendering
\* walk, runs before the first and after the last essential line included,
\* so every line of the file is emitted verbatim or covered by a marker.
C20_NoLineDropped ==
    g_pc = "done" =>
        \A k \in 0..(n_lines - 1) :
            IF k \in print_lines
            THEN \E p \in 1..Len(file_context) : file_context[p] = FileLine(k)
            ELSE LET i == RunStart(k)
                     run_end == RunEnd(i, n_lines, print_lines, FALSE)
                 IN /\ run_end - i > MAX_GAP
                    /\ \E p \in 1..Len(file_context) :
                          file_context[p] = MarkerText(i + 1, run_end)

\* The adjacent pairs of a set of lines: a < b with no line of S between.
AdjacentPairs(S) ==
    {ab \in S \X S : ab[1] < ab[2] /\ \A x \in S : ~(ab[1] < x /\ x < ab[2])}

\* C30: the filled set contains the essential set S and every line of a gap
\* of 1 to 5 lines between adjacent lines of sorted S; it contains no line of
\* a gap of more than 5 lines and no line below min(S) or above max(S);
\* {10,11,15,16} becomes {10,...,16}.
C30_GapFillResult ==
    g_pc # "fill" =>
        /\ essential_lines \subseteq print_lines
        /\ \A ab \in AdjacentPairs(essential_lines) :
              LET gap == (ab[1] + 1)..(ab[2] - 1) IN
              IF Cardinality(gap) >= 1 /\ Cardinality(gap) <= 5
              THEN gap \subseteq print_lines
              ELSE gap \cap print_lines = {}
        /\ \A x \in print_lines :
              \E lo, hi \in essential_lines : lo <= x /\ x <= hi
        /\ essential_lines = {10, 11, 15, 16} => print_lines = 10..16

\* A set with a gap of three lines, a gap of five and a gap of 27 has been
\* filled.
C30_Witness ==
    /\ g_pc = "filled"
    /\ essential_lines = {10, 11, 15, 16, 22, 50}
    /\ print_lines = (10..22) \cup {50}

\* The maximal runs of lines of the file outside print_lines that are longer
\* than MAX_GAP, as pairs <<first, last>> of 0-based line numbers.
LongRuns ==
    {r \in (0..(n_lines - 1)) \X (0..(n_lines - 1)) :
        /\ r[2] - r[1] + 1 > MAX_GAP
        /\ \A k \in r[1]..r[2] : k \notin print_lines
        /\ r[1] = 0 \/ (r[1] - 1) \in print_lines
        /\ r[2] = n_lines - 1 \/ (r[2] + 1) \in print_lines}

\* C31: every skip marker of the rendering stands for one maximal run of
\* non-printed lines longer than MAX_GAP and states the 1-based numbers of
\* the first and the last line of exactly that run (0-based g..g+len-1 reads
\* g+1 to g+len); the items directly before and after the marker are the
\* file lines adjacent to the run; there is one marker per such run.
C31_MarkerNamesItsRun ==
    g_pc = "done" =>
        /\ \A p \in 1..Len(file_context) :
              Head(file_context[p]) = "/" =>
                 \E r \in LongRuns :
                    /\ file_context[p] = MarkerText(r[1] + 1, r[2] + 1)
                    /\ IF r[1] = 0 THEN p = 1
                       ELSE p > 1 /\ file_context[p - 1] = FileLine(r[1] - 1)
                    /\ IF r[2] = n_lines - 1 THEN p = Len(file_context)
                       ELSE /\ p < Len(file_context)
                            /\ file_context[p + 1] = FileLine(r[2] + 1)
        /\ Len(Markers) = Cardinality(LongRuns)

\* A file of 60 lines has been rendered with three markers: the runs 0-9,
\* 23-49 and 51-59, between the printed lines 10..22 and 50.
C31_Witness ==
    /\ g_pc = "done"
    /\ n_lines = 60
    /\ print_lines = (10..22) \cup {50}
    /\ Markers = <<MarkerText(1, 10), MarkerText(24, 50), MarkerText(52, 60)>>

====
